---- MODULE Spec2Model ----
(***************************************************************************)
(* Workout statistics (streak calculators) and workout-day selection       *)
(* (onboarding screen, schedule screen) of the fitness-tracking app.       *)
(*                                                                         *)
(* Calendar days are integers (a day number); a 'yyyy-MM-dd' date column   *)
(* holds such a day.  Weekdays are their lowercase names.                  *)
(***************************************************************************)
EXTENDS Integers, Sequences, FiniteSets, TLC

(***************************************************************************)
(* Bounds of the model                                                     *)
(***************************************************************************)
\* calendar days are 0..MaxDay
MaxDay == 4
\* a workout history has at most MaxLen rows
MaxLen == 3
\* in the time zone "dst" daylight saving time is in force from this day on
DstStart == 2

Days == 0..MaxDay

\* Device / runtime time zones, by the sign of their UTC offset:
\*   "utc"  offset 0 all year (the edge-function runtime),
\*   "west" offset < 0 all year, "east" offset > 0 all year,
\*   "dst"  offset 0 in winter and +1 h from DstStart on (Europe/London).
TimeZones == {"utc", "west", "east", "dst"}

VARIABLES
    \* --- statistics ---
    workoutHistory,   \* the history handed to the calculators: [missing, rows]
    today,            \* startOfDay(new Date()) as a local calendar day
    tz,               \* time zone of the runtime
    streak,           \* <<v>>: calculateStreak last returned v; <<>>: not called yet
    longest,          \* the same for calculateLongestStreak
    \* --- workout-day selection ---
    screen,                 \* the route shown: "onboarding" or "tabs"
    onbSelectedDays,        \* OnboardingScreen's selectedDays state
    asyncStorage,           \* AsyncStorage items; <<>> is an absent item, <<v>> holds v
    storageWritable,        \* environment: AsyncStorage accepts writes (else setItem
                            \* throws); it does not change within a behaviour
    isMounted,              \* ScheduleScreen's isMounted.current
    isLoading,              \* ScheduleScreen state
    selectedDays,           \* ScheduleScreen's selectedDays state
    toasts,                 \* ScheduleScreen's toasts state
    animatingDayId,         \* ScheduleScreen state, NoDay for null
    isFirstInteraction,     \* ScheduleScreen state
    showClearConfirmation,  \* ScheduleScreen state
    \* --- statistics service and update-stats handler ---
    userStatsRow,     \* the user's user_stats row: <<>> when there is none, else <<row>>
    loaded,           \* <<>> or <<[failure, threw, value]>>: the last loadUserStats call
    response,         \* <<>> or <<[request, status, body]>>: the last update-stats response
    \* --- workout screen (learn tab) ---
    session,              \* the signed-in user's id, NoUser when not signed in
    isWorkoutCompleted,   \* LearnScreen state
    showCompletionModal,  \* LearnScreen state
    completing,           \* the handleComplete invocations in flight: [date, pc, history]
    \* --- workout reminders ---
    platform,             \* Platform.OS, fixed within a behaviour
    permissionGranted,    \* the notification permission, fixed within a behaviour
    scheduled,            \* getAllScheduledNotificationsAsync(): the scheduled notifications
    presented,            \* the notification received in the foreground:
                          \* <<>> or <<[type, status, day]>>
    workoutDaysTable,     \* the day column of the user's workout_days rows
    \* --- subscription ---
    clock,                \* new Date(), the time subscriptions are compared with
    subscription,         \* the SubscriptionInfo the limits are asked for
    limits,               \* <<>> or <<[of, at, value]>>: the last getFeatureLimits
                          \* call, its argument, its time and its result
    subscriptionRow,      \* the user's user_subscriptions row: <<>> or <<row>>
    purchaseError,        \* SubscriptionProvider state, "null" for null
    \* --- custom exercises ---
    profileExercises,     \* ProfileScreen state customExercises
    scheduleExercises,    \* ScheduleScreen state customExercises
    customExercisesTable, \* the name column of the user's custom_exercises rows
    \* --- sync-goals edge function ---
    goalsTable,           \* the user_goals rows, [user_id, goal] each
    syncRequests,         \* the sync requests being handled: [body, pc] each
    syncResponse,         \* <<>> or <<[operation, status, goals]>>: the last
                          \* response sent
    \* --- notification operations, one step per await ---
    notifOps              \* the saveReminderSettings and
                          \* checkAndUpdateNotificationStatus calls in
                          \* progress: [kind, pc, time] each

statVars == <<workoutHistory, today, tz, streak, longest>>
scheduleVars == <<isMounted, isLoading, selectedDays, toasts, animatingDayId,
                  isFirstInteraction, showClearConfirmation>>
appVars == <<screen, onbSelectedDays, asyncStorage, storageWritable, scheduleVars>>
serviceVars == <<userStatsRow, loaded, response>>
\* the state outside the statistics calculators and the two selection screens
learnVars == <<session, isWorkoutCompleted, showCompletionModal, completing>>
notifVars == <<platform, permissionGranted, scheduled, presented,
              workoutDaysTable>>
subVars == <<clock, subscription, limits, subscriptionRow, purchaseError>>
exerciseVars == <<profileExercises, scheduleExercises, customExercisesTable>>
goalVars == <<goalsTable, syncRequests, syncResponse>>
\* the groups no earlier model uses
opVars == <<notifOps>>
tailVars == <<goalVars, opVars>>
restVars == <<exerciseVars, tailVars>>
extVars == <<serviceVars, learnVars, notifVars, subVars, restVars>>
\* extVars without the group named
exceptService == <<learnVars, notifVars, subVars, restVars>>
exceptLearn == <<notifVars, subVars, restVars>>
exceptNotif == <<serviceVars, learnVars, subVars, restVars>>
exceptSub == <<serviceVars, learnVars, notifVars, restVars>>
\* extVars without scheduleExercises
exceptScheduleExercises ==
    <<serviceVars, learnVars, notifVars, subVars, profileExercises,
      customExercisesTable, tailVars>>
vars == <<statVars, appVars, extVars>>

NoResult == <<>>
\* null for a day id, undefined for a message
NoDay == "null"
NoMessage == "undefined"

\* AsyncStorage with none of the items set
EmptyStorage ==
    [hasLaunched |-> <<>>, workoutDays |-> <<>>, hasViewedSchedule |-> <<>>,
     userStats |-> <<>>, workoutHistory |-> <<>>, reminderSettings |-> <<>>,
     subscription |-> <<>>, customExercises |-> <<>>]

\* no statistics were loaded or requested
ServiceIdle ==
    /\ userStatsRow = <<>>
    /\ loaded = NoResult
    /\ response = NoResult

\* the only user of the service and workout models, and the absent user id
UserId == "u1"
NoUser == ""

\* the workout screen is not in use
LearnIdle ==
    /\ session = NoUser
    /\ isWorkoutCompleted = FALSE
    /\ showCompletionModal = FALSE
    /\ completing = <<>>

\* no reminder is scheduled or shown
NotifIdle ==
    /\ platform = "ios"
    /\ permissionGranted = FALSE
    /\ scheduled = <<>>
    /\ presented = <<>>
    /\ workoutDaysTable = <<>>

\* SubscriptionInfo of a user who never purchased (defaultSubscription)
defaultSubscription ==
    [tier |-> "free", validUntil |-> <<>>, purchaseDate |-> <<>>,
     subscriptionId |-> <<>>, plan |-> <<>>, autoRenew |-> FALSE]

SubIdle ==
    /\ clock = 0
    /\ subscription = defaultSubscription
    /\ limits = NoResult
    /\ subscriptionRow = <<>>
    /\ purchaseError = "null"

\* no custom exercise exists and no screen has loaded any
ExerciseIdle ==
    /\ profileExercises = <<>>
    /\ scheduleExercises = <<>>
    /\ customExercisesTable = <<>>

\* user_goals is empty and sync-goals handles no request
GoalIdle ==
    /\ goalsTable = <<>>
    /\ syncRequests = <<>>
    /\ syncResponse = NoResult

\* no notification operation is in progress
OpIdle == notifOps = <<>>

TailIdle == GoalIdle /\ OpIdle

RestIdle == ExerciseIdle /\ TailIdle

ExtIdle == ServiceIdle /\ LearnIdle /\ NotifIdle /\ SubIdle /\ RestIdle

(***************************************************************************)
(* date-fns / Date helpers, on day numbers                                 *)
(***************************************************************************)
\* differenceInDays of two local midnights: the number of full days
differenceInDays(dateLeft, dateRight) == dateLeft - dateRight

\* subDays(date, amount)
subDays(date, amount) == date - amount

\* isWithinInterval(d, {start: startOfDay(day), end: endOfDay(day)}), d a local midnight
isWithinDay(d, day) == d = day

\* TRUE iff the zone's UTC offset is positive at local midnight of day d
OffsetPositive(zone, d) ==
    \/ zone = "east"
    \/ zone = "dst" /\ d > DstStart

\* startOfDay(parseISO(date)).toISOString().split('T')[0]: the UTC calendar day
\* of the local midnight of `date`; east of Greenwich that is the day before
toISODay(date, zone) == IF OffsetPositive(zone, date) THEN date - 1 ELSE date

(***************************************************************************)
(* Array helpers                                                           *)
(***************************************************************************)
Range(s) == {s[i] : i \in DOMAIN s}

\* insert row r into the descending-by-date sequence s, after equal dates (stable)
RECURSIVE InsertDesc(_, _)
InsertDesc(r, s) ==
    IF s = <<>> THEN <<r>>
    ELSE IF r.date > Head(s).date THEN <<r>> \o s
    ELSE <<Head(s)>> \o InsertDesc(r, Tail(s))

\* [...workoutHistory].sort((a, b) => new Date(b.date) - new Date(a.date))
RECURSIVE SortByDateDesc(_)
SortByDateDesc(s) ==
    IF s = <<>> THEN <<>>
    ELSE InsertDesc(s[Len(s)], SortByDateDesc(SubSeq(s, 1, Len(s) - 1)))

\* Array.from(set).sort() of ISO day strings: ascending
RECURSIVE SortAsc(_)
SortAsc(S) ==
    IF S = {} THEN <<>>
    ELSE LET m == CHOOSE x \in S : \A y \in S : x <= y
         IN <<m>> \o SortAsc(S \ {m})

(***************************************************************************)
(* calculateStreak                                                         *)
(***************************************************************************)
\* the for loop of calculateStreak from index i on (1-based)
RECURSIVE StreakLoop(_, _, _, _, _)
StreakLoop(sortedHistory, i, streakSoFar, currentDate, now) ==
    IF i > Len(sortedHistory) THEN streakSoFar
    ELSE LET workoutDate == sortedHistory[i].date IN
         IF i = 1 /\ isWithinDay(workoutDate, now)
            THEN StreakLoop(sortedHistory, i + 1, 1, subDays(now, 1), now)
         ELSE IF isWithinDay(workoutDate, currentDate)
            THEN StreakLoop(sortedHistory, i + 1, streakSoFar + 1,
                            subDays(currentDate, 1), now)
         ELSE streakSoFar

\* variant: no one-day cutoff, and the walk starts at the most recent workout
calculateStreak_fromLastWorkout(history, now) ==
    IF history.missing \/ Len(history.rows) = 0 THEN 0
    ELSE LET sortedHistory == SortByDateDesc(history.rows)
             lastWorkoutDate == sortedHistory[1].date
         IN StreakLoop(sortedHistory, 1, 0, lastWorkoutDate, lastWorkoutDate)

calculateStreak(history, now) ==
    IF history.missing \/ Len(history.rows) = 0 THEN 0
    ELSE LET sortedHistory == SortByDateDesc(history.rows)
             lastWorkoutDate == sortedHistory[1].date
         IN IF differenceInDays(now, lastWorkoutDate) > 1 THEN 0
            ELSE StreakLoop(sortedHistory, 1, 0, now, now)

(***************************************************************************)
(* calculateLongestStreak                                                  *)
(***************************************************************************)
\* the for loop of calculateLongestStreak from index i on (1-based, i >= 2)
RECURSIVE LongestLoop(_, _, _, _)
LongestLoop(sortedDays, i, currentStreak, longestStreak) ==
    IF i > Len(sortedDays) THEN longestStreak
    ELSE LET cur == IF differenceInDays(sortedDays[i], sortedDays[i - 1]) = 1
                       THEN currentStreak + 1 ELSE 1
             lng == IF cur > longestStreak THEN cur ELSE longestStreak
         IN LongestLoop(sortedDays, i + 1, cur, lng)

\* variant: the empty-history guard is missing, the counters start at 1
calculateLongestStreak_noGuard(history, zone) ==
    LET workoutDays == {toISODay(history.rows[i].date, zone) :
                            i \in DOMAIN history.rows}
        sortedDays == SortAsc(workoutDays)
    IN LongestLoop(sortedDays, 2, 1, 1)

calculateLongestStreak(history, zone) ==
    IF history.missing \/ Len(history.rows) = 0 THEN 0
    ELSE LET workoutDays == {toISODay(history.rows[i].date, zone) :
                                 i \in DOMAIN history.rows}
             sortedDays == SortAsc(workoutDays)
         IN LongestLoop(sortedDays, 2, 1, 1)

(***************************************************************************)
(* Specification of the statistics calculators                             *)
(***************************************************************************)
BoundedSeq(S, n) == UNION {[1..k -> S] : k \in 0..n}

Rows == [date : Days]

Histories ==
    {[missing |-> TRUE, rows |-> <<>>]}
    \cup {[missing |-> FALSE, rows |-> s] : s \in BoundedSeq(Rows, MaxLen)}

\* the screens are not involved in the statistics
AppIdle ==
    /\ screen = "tabs"
    /\ onbSelectedDays = <<>>
    /\ asyncStorage = EmptyStorage
    /\ storageWritable = TRUE
    /\ isMounted = FALSE
    /\ isLoading = TRUE
    /\ selectedDays = <<>>
    /\ toasts = <<>>
    /\ animatingDayId = NoDay
    /\ isFirstInteraction = TRUE
    /\ showClearConfirmation = FALSE

StatsInit ==
    /\ ExtIdle
    /\ workoutHistory \in Histories
    /\ today \in Days
    /\ tz \in TimeZones
    /\ streak = NoResult
    /\ longest = NoResult
    /\ AppIdle

\* a caller evaluates calculateStreak(workoutHistory)
CallCalculateStreak ==
    /\ streak' = <<calculateStreak(workoutHistory, today)>>
    /\ UNCHANGED <<workoutHistory, today, tz, longest, appVars, extVars>>

\* a caller evaluates calculateLongestStreak(workoutHistory)
CallCalculateLongestStreak ==
    /\ longest' = <<calculateLongestStreak(workoutHistory, tz)>>
    /\ UNCHANGED <<workoutHistory, today, tz, streak, appVars, extVars>>

StatsNext == CallCalculateStreak \/ CallCalculateLongestStreak

SpecStats == StatsInit /\ [][StatsNext]_vars

(***************************************************************************)
(* Properties of the statistics calculators                                *)
(***************************************************************************)
\* the calendar days that have at least one completion
DaySet(history) == {history.rows[i].date : i \in DOMAIN history.rows}

NonEmpty(history) == ~history.missing /\ history.rows # <<>>

MostRecent(history) ==
    CHOOSE d \in DaySet(history) : \A e \in DaySet(history) : e <= d

\* at most one row per calendar day
OnePerDay(history) ==
    \A i, j \in DOMAIN history.rows :
        history.rows[i].date = history.rows[j].date => i = j

\* length of the maximal run of consecutive days of S that ends on day d
RECURSIVE RunEnding(_, _)
RunEnding(S, d) == IF d \in S THEN 1 + RunEnding(S, d - 1) ELSE 0

\* maximum length of a run of consecutive days of the non-empty set S
MaxRun(S) ==
    LET lens == {RunEnding(S, d) : d \in S}
    IN CHOOSE n \in lens : \A m \in lens : m <= n

\* C1: when the most recent completion is yesterday, calculateStreak returns
\* the length of the run of consecutive days ending yesterday (at least 1).
C1_StreakFromYesterday ==
    (/\ streak # NoResult
     /\ NonEmpty(workoutHistory)
     /\ MostRecent(workoutHistory) = today - 1)
    => /\ streak[1] = RunEnding(DaySet(workoutHistory), today - 1)
       /\ streak[1] >= 1

\* C2: for a history with one completion per day that includes today,
\* calculateStreak returns the length of the maximal run of consecutive days
\* ending today.
C2_StreakEndingToday ==
    (/\ streak # NoResult
     /\ NonEmpty(workoutHistory)
     /\ OnePerDay(workoutHistory)
     /\ today \in DaySet(workoutHistory))
    => streak[1] = RunEnding(DaySet(workoutHistory), today)

\* C3: a second record on a day that already has one does not change the
\* value calculateStreak returns.
C3_DuplicateRecordNoEffect ==
    (streak # NoResult /\ NonEmpty(workoutHistory))
    => \A i \in DOMAIN workoutHistory.rows :
          calculateStreak(
              [workoutHistory EXCEPT
                  !.rows = Append(workoutHistory.rows, workoutHistory.rows[i])],
              today) = streak[1]

\* C4: for a non-empty history calculateLongestStreak returns the maximum
\* length of a run of consecutive calendar days among its distinct days (so
\* at least 1, and the same for every today, order and duplication).
C4_LongestIsMaxRun ==
    (longest # NoResult /\ NonEmpty(workoutHistory))
    => /\ longest[1] = MaxRun(DaySet(workoutHistory))
       /\ longest[1] >= 1

\* C5: calculateStreak returns 0 whenever the most recent completion is more
\* than one calendar day before today, whatever the older entries are.
C5_BrokenStreakIsZero ==
    (/\ streak # NoResult
     /\ NonEmpty(workoutHistory)
     /\ today - MostRecent(workoutHistory) > 1)
    => streak[1] = 0

\* a broken streak whose older entries form a run of two days
C5_Witness ==
    /\ streak = <<0>>
    /\ NonEmpty(workoutHistory)
    /\ today - MostRecent(workoutHistory) > 1
    /\ RunEnding(DaySet(workoutHistory), MostRecent(workoutHistory)) >= 2

\* C6: for the empty history, and for a missing history, calculateStreak and
\* calculateLongestStreak both return 0.
C6_EmptyHistoryIsZero ==
    (workoutHistory.missing \/ workoutHistory.rows = <<>>)
    => /\ streak \in {NoResult, <<0>>}
       /\ longest \in {NoResult, <<0>>}

\* both calculators have run on the empty list
C6_Witness ==
    /\ ~workoutHistory.missing
    /\ workoutHistory.rows = <<>>
    /\ streak = <<0>>
    /\ longest = <<0>>

(***************************************************************************)
(* Workout-day selection: shared helpers                                   *)
(***************************************************************************)
\* toasts shown at once on the schedule screen
MaxToasts == 1

\* src/app/(tabs)/schedule.tsx: Monday first
days == <<"monday", "tuesday", "wednesday", "thursday", "friday", "saturday",
          "sunday">>

\* src/app/onboarding.tsx: Sunday first
onboarding_days == <<"sunday", "monday", "tuesday", "wednesday", "thursday",
                     "friday", "saturday">>

DayIds == Range(days)

Abs(n) == IF n < 0 THEN -n ELSE n

\* list.findIndex(day => day.id === d): 0-based, -1 when there is none
findIndex(list, d) ==
    IF \E i \in DOMAIN list : list[i] = d
       THEN (CHOOSE i \in DOMAIN list :
                list[i] = d /\ \A j \in DOMAIN list : list[j] = d => i <= j) - 1
       ELSE -1

\* list.includes(d)
includes(list, d) == \E i \in DOMAIN list : list[i] = d

\* list.filter(x => x !== d)
without(list, d) == SelectSeq(list, LAMBDA x : x # d)

\* selection.map(d => list.findIndex(day => day.id === d))
indicesIn(list, selection) ==
    [i \in DOMAIN selection |-> findIndex(list, selection[i])]

RECURSIVE InsertAsc(_, _)
InsertAsc(n, s) ==
    IF s = <<>> THEN <<n>>
    ELSE IF n < Head(s) THEN <<n>> \o s
    ELSE <<Head(s)>> \o InsertAsc(n, Tail(s))

\* dayIndices.sort((a, b) => a - b)
RECURSIVE sortNumbers(_)
sortNumbers(s) ==
    IF s = <<>> THEN <<>>
    ELSE InsertAsc(s[Len(s)], sortNumbers(SubSeq(s, 1, Len(s) - 1)))

\* variant: the first and the last day of the week count as neighbours
hasConsecutiveDays_circular(dayIndices) ==
    \/ \E i \in 2..Len(dayIndices) :
          Abs(dayIndices[i] - dayIndices[i - 1]) = 1
    \/ /\ Len(dayIndices) > 1
       /\ dayIndices[1] = 0
       /\ dayIndices[Len(dayIndices)] = Len(days) - 1

\* variant: the difference is compared without Math.abs, against -1
hasConsecutiveDays_signed(dayIndices) ==
    \E i \in DOMAIN dayIndices :
        i # 1 /\ dayIndices[i] - dayIndices[i - 1] = -1

\* dayIndices.some((dayIndex, i) => i !== 0 && |dayIndex - dayIndices[i-1]| === 1)
hasConsecutiveDays(dayIndices) ==
    \E i \in DOMAIN dayIndices :
        i # 1 /\ Abs(dayIndices[i] - dayIndices[i - 1]) = 1

\* AsyncStorage.setItem(key, value) that succeeds
setItem(storage, key, value) == [storage EXCEPT ![key] = <<value>>]

(***************************************************************************)
(* Onboarding screen                                                       *)
(***************************************************************************)
onboarding_initialDays == <<"monday", "wednesday", "friday">>

\* the updater toggleDay hands to setSelectedDays
onboarding_toggle(current, dayId) ==
    LET newSelection == IF includes(current, dayId)
                           THEN without(current, dayId)
                           ELSE Append(current, dayId)
        dayIndices == indicesIn(onboarding_days, newSelection)
    IN IF hasConsecutiveDays(dayIndices) THEN current ELSE newSelection

onboarding_toggleDay(dayId) ==
    /\ screen = "onboarding"
    /\ onbSelectedDays' = onboarding_toggle(onbSelectedDays, dayId)
    /\ UNCHANGED <<screen, asyncStorage, storageWritable, scheduleVars, statVars, extVars>>

\* a failing setItem throws: the error is logged and there is no navigation
completeOnboarding ==
    /\ screen = "onboarding"
    /\ IF storageWritable
          THEN /\ asyncStorage' =
                      setItem(setItem(asyncStorage, "hasLaunched", TRUE),
                              "workoutDays", onbSelectedDays)
               /\ screen' = "tabs"
          ELSE UNCHANGED <<asyncStorage, screen>>
    /\ UNCHANGED <<onbSelectedDays, storageWritable, scheduleVars, statVars, extVars>>

(***************************************************************************)
(* Schedule screen                                                         *)
(***************************************************************************)
MaxWorkoutDays == 4

\* ScheduleScreen is mounted with its useState initial values
MountSchedule ==
    /\ screen = "tabs"
    /\ ~isMounted
    /\ isMounted' = TRUE
    /\ isLoading' = TRUE
    /\ selectedDays' = <<>>
    /\ toasts' = <<>>
    /\ animatingDayId' = NoDay
    /\ isFirstInteraction' = TRUE
    /\ showClearConfirmation' = FALSE
    /\ scheduleExercises' = <<>>
    /\ UNCHANGED <<screen, onbSelectedDays, asyncStorage, storageWritable,
                   statVars, exceptScheduleExercises>>

\* the cleanup of the lifecycle effect
UnmountSchedule ==
    /\ isMounted
    /\ isMounted' = FALSE
    /\ UNCHANGED <<isLoading, selectedDays, toasts, animatingDayId,
                   isFirstInteraction, showClearConfirmation,
                   screen, onbSelectedDays, asyncStorage, storageWritable, statVars, extVars>>

\* the initial-load effect (workout days, custom exercises and
\* first-interaction flag)
loadData ==
    /\ isMounted
    /\ isLoading
    /\ selectedDays' = IF asyncStorage.workoutDays # <<>>
                          THEN asyncStorage.workoutDays[1] ELSE selectedDays
    /\ IF asyncStorage.hasViewedSchedule # <<>>
          THEN /\ isFirstInteraction' = FALSE
               /\ UNCHANGED asyncStorage
          ELSE /\ UNCHANGED isFirstInteraction
               /\ asyncStorage' = IF storageWritable
                     THEN setItem(asyncStorage, "hasViewedSchedule", TRUE)
                     ELSE asyncStorage
    /\ scheduleExercises' = IF asyncStorage.customExercises # <<>>
                               THEN asyncStorage.customExercises[1]
                               ELSE scheduleExercises
    /\ isLoading' = FALSE
    /\ UNCHANGED <<isMounted, toasts, animatingDayId, showClearConfirmation,
                   screen, onbSelectedDays, storageWritable, statVars,
                   exceptScheduleExercises>>

\* setToasts(prev => [...prev, newToast])
showToast(list, message, type) ==
    Append(list, [message |-> message, type |-> type])

\* variant: the day indices are not sorted before neighbours are compared
validateDayToggle_unsorted(selection, dayId, isAdding) ==
    IF ~isAdding THEN [isValid |-> TRUE, message |-> NoMessage]
    ELSE LET newSelection == Append(selection, dayId) IN
         IF Len(newSelection) > MaxWorkoutDays
            THEN [isValid |-> FALSE,
                  message |-> "Maximum of 4 workout days allowed"]
         ELSE LET dayIndices == indicesIn(days, newSelection) IN
              IF hasConsecutiveDays(dayIndices)
                 THEN [isValid |-> FALSE,
                       message |-> "Rest day required between workouts"]
                 ELSE [isValid |-> TRUE, message |-> NoMessage]

validateDayToggle(selection, dayId, isAdding) ==
    IF ~isAdding THEN [isValid |-> TRUE, message |-> NoMessage]
    ELSE LET newSelection == Append(selection, dayId) IN
         IF Len(newSelection) > MaxWorkoutDays
            THEN [isValid |-> FALSE,
                  message |-> "Maximum of 4 workout days allowed"]
         ELSE LET dayIndices == sortNumbers(indicesIn(days, newSelection)) IN
              IF hasConsecutiveDays(dayIndices)
                 THEN [isValid |-> FALSE,
                       message |-> "Rest day required between workouts"]
                 ELSE [isValid |-> TRUE, message |-> NoMessage]

\* the tail of toggleDay: state update, save, first-interaction flag
commitSelection(newSelection) ==
    /\ selectedDays' = newSelection
    /\ isFirstInteraction' = FALSE
    /\ LET saved == IF storageWritable
                        THEN setItem(asyncStorage, "workoutDays", newSelection)
                        ELSE asyncStorage
       IN asyncStorage' = IF isFirstInteraction /\ storageWritable
                             THEN setItem(saved, "hasViewedSchedule", TRUE)
                             ELSE saved
    /\ UNCHANGED <<toasts, animatingDayId>>

\* variant: the rejected day is added and saved before the error is shown
handleErrorAnimation_commit(dayId, message) ==
    /\ Len(toasts) < MaxToasts
    /\ toasts' = showToast(toasts, message, "error")
    /\ animatingDayId' = dayId
    /\ selectedDays' = Append(selectedDays, dayId)
    /\ asyncStorage' = setItem(asyncStorage, "workoutDays",
                               Append(selectedDays, dayId))
    /\ UNCHANGED isFirstInteraction

\* handleErrorAnimation(dayId, message)
handleErrorAnimation(dayId, message) ==
    /\ Len(toasts) < MaxToasts
    /\ toasts' = showToast(toasts, message, "error")
    /\ animatingDayId' = dayId
    /\ UNCHANGED <<selectedDays, isFirstInteraction, asyncStorage>>

\* lines 521-537 of toggleDay: the selection to commit, or the rejection
toggleDay_decision(selection, dayId) ==
    IF includes(selection, dayId)
       THEN [isValid |-> TRUE, message |-> NoMessage,
             newSelection |-> without(selection, dayId)]
       ELSE LET validation == validateDayToggle(selection, dayId, TRUE) IN
            IF ~validation.isValid
               THEN [isValid |-> FALSE, message |-> validation.message,
                     newSelection |-> selection]
               ELSE [isValid |-> TRUE, message |-> NoMessage,
                     newSelection |-> Append(selection, dayId)]

\* a tap on a day card; the cards are rendered once loading is over and lie
\* under the confirmation overlay
toggleDay(dayId) ==
    /\ isMounted
    /\ ~isLoading
    /\ ~showClearConfirmation
    /\ LET decision == toggleDay_decision(selectedDays, dayId) IN
          IF decision.isValid
             THEN commitSelection(decision.newSelection)
             ELSE handleErrorAnimation(dayId, decision.message)
    /\ UNCHANGED <<isMounted, isLoading, showClearConfirmation,
                   screen, onbSelectedDays, storageWritable, statVars, extVars>>

\* the timer handleErrorAnimation starts
errorAnimationTimeout ==
    /\ isMounted
    /\ animatingDayId # NoDay
    /\ animatingDayId' = NoDay
    /\ UNCHANGED <<isMounted, isLoading, selectedDays, toasts,
                   isFirstInteraction, showClearConfirmation,
                   screen, onbSelectedDays, asyncStorage, storageWritable, statVars, extVars>>

\* ToastManager's onRemove for the toast at position i
removeToast(i) ==
    /\ isMounted
    /\ i \in DOMAIN toasts
    /\ toasts' = [j \in 1..(Len(toasts) - 1) |->
                     IF j < i THEN toasts[j] ELSE toasts[j + 1]]
    /\ UNCHANGED <<isMounted, isLoading, selectedDays, animatingDayId,
                   isFirstInteraction, showClearConfirmation,
                   screen, onbSelectedDays, asyncStorage, storageWritable, statVars, extVars>>

handleShowClearConfirmation ==
    /\ isMounted
    /\ ~showClearConfirmation
    /\ Len(selectedDays) # 0
    /\ showClearConfirmation' = TRUE
    /\ UNCHANGED <<isMounted, isLoading, selectedDays, toasts, animatingDayId,
                   isFirstInteraction, screen, onbSelectedDays, asyncStorage,
                   storageWritable, statVars, extVars>>

\* the dialog's Cancel button and the overlay background
cancelClearConfirmation ==
    /\ isMounted
    /\ showClearConfirmation
    /\ showClearConfirmation' = FALSE
    /\ UNCHANGED <<isMounted, isLoading, selectedDays, toasts, animatingDayId,
                   isFirstInteraction, screen, onbSelectedDays, asyncStorage,
                   storageWritable, statVars, extVars>>

\* the dialog's confirm button
clearAllDays ==
    /\ isMounted
    /\ showClearConfirmation
    /\ Len(toasts) < MaxToasts
    /\ IF Len(selectedDays) = 0
          THEN /\ toasts' = showToast(toasts, "All days are already rest days",
                                      "info")
               /\ UNCHANGED <<showClearConfirmation, selectedDays, asyncStorage>>
          ELSE /\ showClearConfirmation' = FALSE
               /\ selectedDays' = <<>>
               /\ IF storageWritable
                        THEN /\ asyncStorage' =
                                    setItem(asyncStorage, "workoutDays", <<>>)
                             /\ toasts' = showToast(toasts, "Schedule cleared",
                                                    "success")
                        ELSE /\ UNCHANGED asyncStorage
                             /\ toasts' = showToast(toasts,
                                    "Failed to clear workout days", "error")
    /\ UNCHANGED <<isMounted, isLoading, animatingDayId, isFirstInteraction,
                   screen, onbSelectedDays, storageWritable, statVars, extVars>>

ScheduleNext ==
    \/ MountSchedule
    \/ UnmountSchedule
    \/ loadData
    \/ \E d \in DayIds : toggleDay(d)
    \/ errorAnimationTimeout
    \/ \E i \in 1..MaxToasts : removeToast(i)
    \/ handleShowClearConfirmation
    \/ cancelClearConfirmation
    \/ clearAllDays

(***************************************************************************)
(* Specifications of the screens                                           *)
(***************************************************************************)
StatsIdle ==
    /\ workoutHistory = [missing |-> TRUE, rows |-> <<>>]
    /\ today = 0
    /\ tz = "utc"
    /\ streak = NoResult
    /\ longest = NoResult

ScheduleUnmounted ==
    /\ isMounted = FALSE
    /\ isLoading = TRUE
    /\ selectedDays = <<>>
    /\ toasts = <<>>
    /\ animatingDayId = NoDay
    /\ isFirstInteraction = TRUE
    /\ showClearConfirmation = FALSE

\* first launch: the onboarding screen
OnboardingInit ==
    /\ ExtIdle
    /\ screen = "onboarding"
    /\ onbSelectedDays = onboarding_initialDays
    /\ asyncStorage = EmptyStorage
    /\ storageWritable \in BOOLEAN
    /\ ScheduleUnmounted
    /\ StatsIdle

OnboardingNext ==
    \/ \E d \in DayIds : onboarding_toggleDay(d)
    \/ completeOnboarding

SpecOnboarding == OnboardingInit /\ [][OnboardingNext]_vars

\* workoutDays items the schedule screen may find: none (no onboarding), the
\* empty selection, onboarding's initial selection, and a selection the
\* onboarding screen accepts after sunday and tuesday are added to it
SavedSelections ==
    {<<>>, onboarding_initialDays,
     <<"monday", "wednesday", "friday", "sunday", "tuesday">>}

ScheduleInit ==
    /\ ExtIdle
    /\ screen = "tabs"
    /\ onbSelectedDays = onboarding_initialDays
    /\ \E item \in {<<>>} \cup {<<sel>> : sel \in SavedSelections} :
          asyncStorage = [EmptyStorage EXCEPT !.workoutDays = item]
    /\ storageWritable \in BOOLEAN
    /\ ScheduleUnmounted
    /\ StatsIdle

SpecSchedule == ScheduleInit /\ [][ScheduleNext]_vars

(***************************************************************************)
(* Properties of the workout-day selection                                 *)
(***************************************************************************)
\* 1-based position of weekday d in an ordering of the week
Position(order, d) == CHOOSE i \in DOMAIN order : order[i] = d

\* two days of S lie at neighbouring positions of the ordering
AdjacentPair(S, order) ==
    \E a, b \in S : Abs(Position(order, a) - Position(order, b)) = 1

\* at most 4 days, no two of them neighbours in the ordering
ValidSelection(selection, order) ==
    /\ Len(selection) <= 4
    /\ Cardinality(Range(selection)) = Len(selection)
    /\ ~AdjacentPair(Range(selection), order)

RestDayToast ==
    [message |-> "Rest day required between workouts", type |-> "error"]

\* C7: for an add of day d to the current selection S, validateDayToggle
\* returns invalid exactly when S plus d has more than 4 days or holds two
\* days whose positions in the schedule screen's ordering differ by 1.
C7_ValidateAdd ==
    (isMounted /\ ~isLoading)
    => \A d \in DayIds \ Range(selectedDays) :
          LET after == Range(selectedDays) \cup {d} IN
          validateDayToggle(selectedDays, d, TRUE).isValid
             = ~(Cardinality(after) > 4 \/ AdjacentPair(after, days))

\* tuesday was rejected next to monday, wednesday was accepted between
\* monday and friday
C7_Witness ==
    /\ selectedDays = <<"monday", "friday", "wednesday">>
    /\ animatingDayId = "tuesday"
    /\ toasts = <<RestDayToast>>

\* C8: toggling a day that is selected removes it, whatever else is
\* selected, on the schedule screen and on the onboarding screen.
C8_RemoveAlwaysValid ==
    /\ (isMounted /\ ~isLoading)
       => \A d \in Range(selectedDays) :
             /\ validateDayToggle(selectedDays, d, FALSE).isValid
             /\ toggleDay_decision(selectedDays, d).isValid
             /\ ~includes(toggleDay_decision(selectedDays, d).newSelection, d)
    /\ screen = "onboarding"
       => \A d \in Range(onbSelectedDays) :
             ~includes(onboarding_toggle(onbSelectedDays, d), d)

\* C9: the selection completeOnboarding persists has at most 4 days and no
\* two days adjacent on the weekly calendar.
C9_OnboardingPersistsValid ==
    asyncStorage.workoutDays # <<>>
    => ValidSelection(asyncStorage.workoutDays[1], onboarding_days)

\* the in-memory selection and the persisted one are valid
ScheduleValid ==
    /\ ValidSelection(selectedDays, days)
    /\ asyncStorage.workoutDays # <<>>
       => ValidSelection(asyncStorage.workoutDays[1], days)

\* the schedule screen started with a valid stored selection, or with none
ScheduleValidInit == ScheduleInit /\ ScheduleValid

SpecScheduleValid == ScheduleValidInit /\ [][ScheduleNext]_vars

\* C10: on the schedule screen, starting from a selection with at most 4
\* days and no two adjacent days, after any sequence of toggleDay and
\* clearAllDays (and the screen's other steps) the selection and the
\* persisted workoutDays still have at most 4 days and no two days at
\* adjacent positions of the screen's weekday ordering.
C10_ScheduleStaysValid ==
    /\ Len(selectedDays) <= 4
    /\ ~AdjacentPair(Range(selectedDays), days)
    /\ asyncStorage.workoutDays # <<>>
       => /\ Len(asyncStorage.workoutDays[1]) <= 4
          /\ ~AdjacentPair(Range(asyncStorage.workoutDays[1]), days)

\* the schedule was cleared, then four days were selected and saved
C10_Witness ==
    /\ Len(selectedDays) = 4
    /\ ScheduleValid
    /\ asyncStorage.workoutDays = <<selectedDays>>
    /\ toasts = <<[message |-> "Schedule cleared", type |-> "success"]>>

\* C11 as stated: on the schedule screen, sunday is accepted when only
\* saturday is selected and saturday is accepted when only sunday is selected.
C11_SaturdaySundayAccepted ==
    (isMounted /\ ~isLoading)
    => /\ selectedDays = <<"saturday">>
          => validateDayToggle(selectedDays, "sunday", TRUE).isValid
       /\ selectedDays = <<"sunday">>
          => validateDayToggle(selectedDays, "saturday", TRUE).isValid

\* C11: the schedule screen's adjacency check does not treat the week as
\* circular. The two ends of its Monday-first ordering, monday and sunday,
\* are not flagged as adjacent: sunday is accepted when only monday is
\* selected and monday when only sunday is selected. Saturday and sunday are
\* neighbours in that ordering and are flagged: either one is rejected with
\* the rest-day message when only the other is selected.
C11_WeekNotCircular ==
    (isMounted /\ ~isLoading)
    => /\ selectedDays = <<"monday">>
          => validateDayToggle(selectedDays, "sunday", TRUE).isValid
       /\ selectedDays = <<"sunday">>
          => /\ validateDayToggle(selectedDays, "monday", TRUE).isValid
             /\ validateDayToggle(selectedDays, "saturday", TRUE)
                   = [isValid |-> FALSE, message |-> RestDayToast.message]
       /\ selectedDays = <<"saturday">>
          => validateDayToggle(selectedDays, "sunday", TRUE)
                = [isValid |-> FALSE, message |-> RestDayToast.message]

\* with sunday selected, saturday was rejected and monday was then accepted
C11_Witness ==
    /\ selectedDays = <<"sunday", "monday">>
    /\ asyncStorage.workoutDays = <<selectedDays>>
    /\ animatingDayId = "saturday"
    /\ toasts = <<RestDayToast>>

\* C12: a toggleDay step whose add is rejected by validateDayToggle leaves
\* the in-memory selection and every persisted item (workoutDays included)
\* as they were; the step only appends the error toast and starts the error
\* animation of the tapped day.
C12_RejectedAddFrame ==
    [][\A d \in DayIds :
          (toggleDay(d) /\ ~toggleDay_decision(selectedDays, d).isValid)
          => /\ selectedDays' = selectedDays
             /\ asyncStorage' = asyncStorage
             /\ isFirstInteraction' = isFirstInteraction
             /\ toasts' = Append(toasts,
                   [message |-> validateDayToggle(selectedDays, d, TRUE).message,
                    type |-> "error"])
             /\ animatingDayId' = d]_vars

\* a fifth day was rejected: four days are selected and saved, and the cap's
\* toast is shown
C12_Witness ==
    /\ Len(selectedDays) = 4
    /\ asyncStorage.workoutDays = <<selectedDays>>
    /\ animatingDayId \in DayIds \ Range(selectedDays)
    /\ toasts = <<[message |-> "Maximum of 4 workout days allowed",
                   type |-> "error"]>>

(***************************************************************************)
(* Statistics service (client) and the update-stats request handler        *)
(***************************************************************************)
\* the workout_history table holds at most MaxRecords rows of the user
MaxRecords == 2
\* averageWorkoutDuration placeholder of the client
PlaceholderDuration == 30
\* minutes per exercise in the handler's average
MinutesPerExercise == 5

\* exercises.length of a workout_history row
ExerciseCounts == {0, 3}

ServiceRows == [date : Days, exercises : ExerciseCounts]

\* a table is a bag of rows: its rows are listed latest date first, and by
\* exercise count within a date
TableOrder(s) ==
    \A i, j \in DOMAIN s :
        i < j => \/ s[i].date > s[j].date
                 \/ s[i].date = s[j].date /\ s[i].exercises >= s[j].exercises

ServiceHistories ==
    {[missing |-> FALSE, rows |-> s] :
        s \in {t \in BoundedSeq(ServiceRows, MaxRecords) : TableOrder(t)}}

defaultStats ==
    [totalWorkouts |-> 0, currentStreak |-> 0, longestStreak |-> 0,
     averageWorkoutDuration |-> 0]

\* .from('workout_history').select('*').order('date', { ascending: false })
selectHistory(rows) == SortByDateDesc(rows)

calculateStatsFromHistory(rows, now) ==
    LET totalWorkouts == Len(rows)
        currentStreak == calculateStreak([missing |-> FALSE, rows |-> rows], now)
        longestStreak == currentStreak
        averageWorkoutDuration == PlaceholderDuration
    IN [totalWorkouts |-> totalWorkouts, currentStreak |-> currentStreak,
        longestStreak |-> longestStreak,
        averageWorkoutDuration |-> averageWorkoutDuration]

\* exerciseCounts.reduce((sum, count) => sum + count, 0)
RECURSIVE totalExercises(_)
totalExercises(rows) ==
    IF rows = <<>> THEN 0
    ELSE Head(rows).exercises + totalExercises(Tail(rows))

\* Math.round(x) for the rational x = num / den, den > 0: floor(x + 1/2)
MathRoundRatio(num, den) == (2 * num + den) \div (2 * den)

calculateAverageWorkoutDuration(rows) ==
    IF Len(rows) = 0 THEN 0
    ELSE MathRoundRatio(totalExercises(rows) * MinutesPerExercise, Len(rows))

\* the columns of a user_stats row written from a UserStats object
statsToRow(stats) ==
    [total_workouts |-> stats.totalWorkouts,
     current_streak |-> stats.currentStreak,
     longest_streak |-> stats.longestStreak,
     average_workout_duration |-> stats.averageWorkoutDuration]

\* the UserStats object loadUserStats builds from a user_stats row
rowToStats(row) ==
    [totalWorkouts |-> row.total_workouts,
     currentStreak |-> row.current_streak,
     longestStreak |-> row.longest_streak,
     averageWorkoutDuration |-> row.average_workout_duration]

\* variant: the catch block of loadUserStats rethrows
loadUserStats_rethrow(failure, row) ==
    [failure |-> failure, threw |-> TRUE, value |-> <<>>, row |-> row]

\* catch (error) { console.error(...); return defaultStats; }
loadUserStats_catch(failure, row) ==
    [failure |-> failure, threw |-> FALSE, value |-> defaultStats, row |-> row]

\* saveUserStats(stats, userId) for a signed-in user: whether it throws (it
\* logs and rethrows) and the user_stats row afterwards
saveUserStats_row(stats, row, fails) ==
    IF fails THEN [threw |-> TRUE, row |-> row]
    ELSE [threw |-> FALSE, row |-> <<statsToRow(stats)>>]

\* loadUserStats(userId): the outcome and the user_stats row afterwards.
\* failure names the operation the environment makes fail in this call:
\* "fetch" (user_stats select), "history" (workout_history select), "save"
\* (saveUserStats), "storage" (AsyncStorage.getItem), or "none"
loadUserStats_result(userId, failure, row, rows, now, storage) ==
    IF userId # NoUser
       THEN IF failure = "fetch" THEN loadUserStats_catch("fetch", row)
            ELSE IF row # <<>>
               THEN [failure |-> "none", threw |-> FALSE,
                     value |-> rowToStats(row[1]), row |-> row]
            ELSE IF failure = "history" THEN loadUserStats_catch("history", row)
            ELSE LET calculatedStats ==
                         calculateStatsFromHistory(selectHistory(rows), now)
                     saved == saveUserStats_row(calculatedStats, row,
                                                failure = "save")
                 IN IF saved.threw THEN loadUserStats_catch("save", saved.row)
                    ELSE [failure |-> "none", threw |-> FALSE,
                          value |-> calculatedStats, row |-> saved.row]
       ELSE IF failure = "storage" THEN loadUserStats_catch("storage", row)
            ELSE IF storage.userStats # <<>>
               THEN [failure |-> "none", threw |-> FALSE,
                     value |-> storage.userStats[1], row |-> row]
            ELSE [failure |-> "none", threw |-> FALSE,
                  value |-> defaultStats, row |-> row]

LoadFailures == {"none", "fetch", "history", "save", "storage"}

loadUserStats(userId, failure) ==
    /\ LET r == loadUserStats_result(userId, failure, userStatsRow,
                                     workoutHistory.rows, today, asyncStorage)
       IN /\ loaded' = <<[failure |-> r.failure, threw |-> r.threw,
                          value |-> r.value]>>
          /\ userStatsRow' = r.row
    /\ UNCHANGED <<response, statVars, appVars, exceptService>>

\* variant: the statistics are the top-level fields of the response body
updateStats_flatBody(stats) == stats

\* the body of the 200 response (lines 203-212)
updateStats_successBody(stats) == [success |-> TRUE, stats |-> stats]

\* lines 155-158 of the handler, on the rows the history query returned
updateStats_calculate(rows, now, zone) ==
    [total_workouts |-> Len(rows),
     current_streak |-> calculateStreak([missing |-> FALSE, rows |-> rows], now),
     longest_streak |->
         calculateLongestStreak([missing |-> FALSE, rows |-> rows], zone),
     average_workout_duration |-> calculateAverageWorkoutDuration(rows)]

\* the catch block: status 500 and { error: error.message }
updateStats_error(request, message) ==
    [request |-> request, status |-> 500, body |-> [error |-> message]]

UpdateFailures == {"none", "json", "history", "stats", "write"}

\* Deno.serve handler of update-stats for one request; failure names the
\* operation the environment makes fail: "json" (req.json()), "history"
\* (workout_history select), "stats" (user_stats select), "write" (update or
\* insert of user_stats), or "none"
updateStats(method, user_id, failure) ==
    LET request == [method |-> method, user_id |-> user_id] IN
    /\ IF method = "OPTIONS"
          THEN /\ response' = <<[request |-> request, status |-> 200,
                                 body |-> "null"]>>
               /\ UNCHANGED userStatsRow
       ELSE IF failure = "json"
          THEN /\ response' = <<updateStats_error(request, "json")>>
               /\ UNCHANGED userStatsRow
       ELSE IF user_id = NoUser
          THEN /\ response' = <<[request |-> request, status |-> 400,
                                 body |-> [error |-> "User ID is required"]]>>
               /\ UNCHANGED userStatsRow
       ELSE IF failure \in {"history", "stats", "write"}
          THEN /\ response' = <<updateStats_error(request, failure)>>
               /\ UNCHANGED userStatsRow
       ELSE LET stats == updateStats_calculate(
                             selectHistory(workoutHistory.rows), today, tz)
            IN /\ userStatsRow' = <<stats>>
               /\ response' = <<[request |-> request, status |-> 200,
                                 body |-> updateStats_successBody(stats)]>>
    /\ UNCHANGED <<loaded, statVars, appVars, exceptService>>

ServiceNext ==
    \/ \E userId \in {NoUser, UserId}, failure \in LoadFailures :
          loadUserStats(userId, failure)
    \/ \E method \in {"OPTIONS", "POST"}, user_id \in {NoUser, UserId},
          failure \in UpdateFailures :
          updateStats(method, user_id, failure)

\* a UserStats object saved by an earlier session of a user not signed in
StoredStats ==
    [totalWorkouts |-> 1, currentStreak |-> 1, longestStreak |-> 1,
     averageWorkoutDuration |-> PlaceholderDuration]

\* the edge-function runtime and the day are fixed: today is the last day of
\* the window, the table holds any history, no user_stats row exists yet
ServiceInit ==
    /\ workoutHistory \in ServiceHistories
    /\ today = MaxDay
    /\ tz = "utc"
    /\ streak = NoResult
    /\ longest = NoResult
    /\ screen = "tabs"
    /\ onbSelectedDays = <<>>
    /\ \E item \in {<<>>, <<StoredStats>>} :
          asyncStorage = [EmptyStorage EXCEPT !.userStats = item]
    /\ storageWritable = TRUE
    /\ ScheduleUnmounted
    /\ ServiceIdle
    /\ LearnIdle
    /\ NotifIdle
    /\ SubIdle
    /\ RestIdle

SpecService == ServiceInit /\ [][ServiceNext]_vars

(***************************************************************************)
(* Properties of the statistics service and the update-stats handler       *)
(***************************************************************************)
StatsFields ==
    {"total_workouts", "current_streak", "longest_streak",
     "average_workout_duration"}

\* the last update-stats request carried a user id and was answered with 200
UpdateSucceeded ==
    /\ response # NoResult
    /\ response[1].request.method = "POST"
    /\ response[1].request.user_id # NoUser
    /\ response[1].status = 200

\* C13: for the same history and the same current day, the client's
\* calculateStatsFromHistory and the update-stats handler yield the same
\* total workouts, the same current streak and the same longest streak.
C13_ClientMatchesHandler ==
    UpdateSucceeded
    => LET client == calculateStatsFromHistory(
                         selectHistory(workoutHistory.rows), today)
           handler == response[1].body.stats
       IN /\ client.totalWorkouts = handler.total_workouts
          /\ client.currentStreak = handler.current_streak
          /\ client.longestStreak = handler.longest_streak

\* C14 as stated: the four statistics are the top-level fields of the body
\* of a successful update-stats response.
C14_BodyIsStatsRecord ==
    UpdateSucceeded => DOMAIN response[1].body = StatsFields

\* C14: the body of a successful update-stats response has exactly the
\* top-level fields success, which is true, and stats; stats is the record
\* of total_workouts, current_streak, longest_streak and
\* average_workout_duration, with the values the handler wrote to the user's
\* user_stats row.
C14_BodyWrapsStats ==
    UpdateSucceeded
    => /\ DOMAIN response[1].body = {"success", "stats"}
       /\ response[1].body.success = TRUE
       /\ DOMAIN response[1].body.stats = StatsFields
       /\ response[1].body.stats.total_workouts = Len(workoutHistory.rows)
       /\ response[1].body.stats.average_workout_duration
             = calculateAverageWorkoutDuration(workoutHistory.rows)
       /\ userStatsRow = <<response[1].body.stats>>

\* two workouts, three exercises in one of them: the average is round(7.5)
C14_Witness ==
    /\ UpdateSucceeded
    /\ response[1].body.stats.total_workouts = 2
    /\ response[1].body.stats.average_workout_duration = 8
    /\ userStatsRow = <<response[1].body.stats>>

\* C16: loadUserStats never throws; when the user_stats fetch, the history
\* fetch, the save of the calculated statistics or the AsyncStorage read
\* fails, it returns defaultStats, whose four fields are 0.
C16_LoadNeverThrows ==
    loaded # NoResult
    => /\ ~loaded[1].threw
       /\ loaded[1].failure # "none"
          => /\ loaded[1].value = defaultStats
             /\ \A f \in DOMAIN loaded[1].value : loaded[1].value[f] = 0

\* the save of the statistics calculated from a non-empty history failed
C16_Witness ==
    /\ loaded # NoResult
    /\ loaded[1].failure = "save"
    /\ loaded[1].value = defaultStats
    /\ workoutHistory.rows # <<>>
    /\ userStatsRow = <<>>

(***************************************************************************)
(* Workout screen: completing today's workout                              *)
(***************************************************************************)
\* handleComplete invocations in flight at once
MaxInFlight == 2
\* completions recorded within a behaviour
MaxCompletions == 3

\* today's workout is the default one; only the length of its exercise list
\* is kept in a history record
defaultExercises == <<"Push-ups", "Pull-ups", "Squats", "Dips">>

\* completionData of handleComplete
completionData(date) == [date |-> date, exercises |-> Len(defaultExercises)]

\* the rows of a history dated day
rowsOn(rows, day) == SelectSeq(rows, LAMBDA r : r.date = day)

\* the sequence s without its element at position i
removeAt(s, i) == [j \in 1..(Len(s) - 1) |-> IF j < i THEN s[j] ELSE s[j + 1]]

\* updatedStats of handleComplete
completedStats(currentStats) ==
    [currentStats EXCEPT
        !.totalWorkouts = @ + 1,
        !.currentStreak = @ + 1,
        !.longestStreak = IF @ > currentStats.currentStreak + 1
                             THEN @ ELSE currentStats.currentStreak + 1]

\* the focus effect of the workout screen, for the check whether today's
\* workout is completed; today is one of the user's workout days.
\* Signed in: .eq('date', today).single() yields a row only when exactly one
\* row matches (PGRST116 otherwise).  Not signed in: the state is set only
\* when the workoutHistory item exists.
loadWorkoutData ==
    /\ screen = "tabs"
    /\ isWorkoutCompleted' =
          IF session # NoUser
             THEN Len(rowsOn(workoutHistory.rows, today)) = 1
          ELSE IF asyncStorage.workoutHistory # <<>>
             THEN rowsOn(asyncStorage.workoutHistory[1], today) # <<>>
          ELSE isWorkoutCompleted
    /\ UNCHANGED <<session, showCompletionModal, completing, statVars, appVars,
                   serviceVars, exceptLearn>>

\* the Complete Workout button, rendered while the workout is not completed
openCompletionModal ==
    /\ screen = "tabs"
    /\ ~isWorkoutCompleted
    /\ ~showCompletionModal
    /\ showCompletionModal' = TRUE
    /\ UNCHANGED <<session, isWorkoutCompleted, completing, statVars, appVars,
                   serviceVars, exceptLearn>>

\* the modal's Cancel button
cancelCompletionModal ==
    /\ showCompletionModal
    /\ showCompletionModal' = FALSE
    /\ UNCHANGED <<session, isWorkoutCompleted, completing, statVars, appVars,
                   serviceVars, exceptLearn>>

\* the modal's Complete button: handleComplete runs up to its first await
handleComplete ==
    /\ showCompletionModal
    /\ Len(completing) < MaxInFlight
    /\ Len(workoutHistory.rows) + Len(completing) < MaxCompletions
    /\ (asyncStorage.workoutHistory # <<>>
        => Len(asyncStorage.workoutHistory[1]) + Len(completing) < MaxCompletions)
    /\ completing' = Append(completing,
          [date |-> today,
           pc |-> IF session # NoUser THEN "insert" ELSE "getItem",
           history |-> <<>>])
    /\ UNCHANGED <<session, isWorkoutCompleted, showCompletionModal, statVars,
                   appVars, serviceVars, exceptLearn>>

\* signed in: the insert into workout_history returns; an error is thrown to
\* the catch block, which only logs it
handleComplete_insert(i, ok) ==
    /\ i \in DOMAIN completing
    /\ completing[i].pc = "insert"
    /\ IF ok
          THEN /\ workoutHistory' =
                      [workoutHistory EXCEPT
                          !.rows = Append(@, completionData(completing[i].date))]
               /\ completing' = [completing EXCEPT ![i].pc = "stats"]
          ELSE /\ completing' = removeAt(completing, i)
               /\ UNCHANGED workoutHistory
    /\ UNCHANGED <<today, tz, streak, longest, session, isWorkoutCompleted,
                   showCompletionModal, appVars, serviceVars, exceptLearn>>

\* not signed in: JSON.parse(await AsyncStorage.getItem('workoutHistory') || '[]')
handleComplete_getItem(i) ==
    /\ i \in DOMAIN completing
    /\ completing[i].pc = "getItem"
    /\ completing' =
          [completing EXCEPT
              ![i].pc = "setItem",
              ![i].history = IF asyncStorage.workoutHistory # <<>>
                                THEN asyncStorage.workoutHistory[1] ELSE <<>>]
    /\ UNCHANGED <<session, isWorkoutCompleted, showCompletionModal, statVars,
                   appVars, serviceVars, exceptLearn>>

\* not signed in: history.push(completionData) and the setItem of the list
handleComplete_setItem(i) ==
    /\ i \in DOMAIN completing
    /\ completing[i].pc = "setItem"
    /\ IF storageWritable
          THEN /\ asyncStorage' =
                      setItem(asyncStorage, "workoutHistory",
                              Append(completing[i].history,
                                     completionData(completing[i].date)))
               /\ completing' = [completing EXCEPT ![i].pc = "stats",
                                                   ![i].history = <<>>]
          ELSE /\ completing' = removeAt(completing, i)
               /\ UNCHANGED asyncStorage
    /\ UNCHANGED <<session, isWorkoutCompleted, showCompletionModal, statVars,
                   screen, onbSelectedDays, storageWritable, scheduleVars,
                   serviceVars, exceptLearn>>

\* the statistics update and the end of handleComplete: the statistics are
\* loaded, incremented and saved; when the save throws, the catch block logs
\* and the screen state is left as it is
handleComplete_stats(i, saveOk) ==
    /\ i \in DOMAIN completing
    /\ completing[i].pc = "stats"
    /\ completing' = removeAt(completing, i)
    /\ IF session # NoUser
          THEN LET current == loadUserStats_result(session, "none",
                                  userStatsRow, workoutHistory.rows, today,
                                  asyncStorage)
                   saved == saveUserStats_row(completedStats(current.value),
                                              current.row, ~saveOk)
               IN /\ userStatsRow' = saved.row
                  /\ UNCHANGED asyncStorage
                  /\ IF saved.threw
                        THEN UNCHANGED <<showCompletionModal, isWorkoutCompleted>>
                        ELSE /\ showCompletionModal' = FALSE
                             /\ isWorkoutCompleted' = TRUE
          ELSE LET currentStats == IF asyncStorage.userStats # <<>>
                                      THEN asyncStorage.userStats[1]
                                      ELSE defaultStats
               IN /\ UNCHANGED userStatsRow
                  /\ IF saveOk /\ storageWritable
                        THEN /\ asyncStorage' =
                                    setItem(asyncStorage, "userStats",
                                            completedStats(currentStats))
                             /\ showCompletionModal' = FALSE
                             /\ isWorkoutCompleted' = TRUE
                        ELSE UNCHANGED <<asyncStorage, showCompletionModal,
                                         isWorkoutCompleted>>
    /\ UNCHANGED <<session, statVars, screen, onbSelectedDays, storageWritable,
                   scheduleVars, loaded, response, exceptLearn>>

\* midnight passes
nextDay ==
    /\ today < MaxDay
    /\ today' = today + 1
    /\ UNCHANGED <<workoutHistory, tz, streak, longest, appVars, extVars>>

LearnNext ==
    \/ loadWorkoutData
    \/ openCompletionModal
    \/ cancelCompletionModal
    \/ handleComplete
    \/ \E i \in 1..MaxInFlight, ok \in BOOLEAN : handleComplete_insert(i, ok)
    \/ \E i \in 1..MaxInFlight : handleComplete_getItem(i)
    \/ \E i \in 1..MaxInFlight : handleComplete_setItem(i)
    \/ \E i \in 1..MaxInFlight, saveOk \in BOOLEAN : handleComplete_stats(i, saveOk)
    \/ nextDay

\* a fresh installation, signed in or not, with no workout recorded
LearnInit ==
    /\ workoutHistory = [missing |-> FALSE, rows |-> <<>>]
    /\ today = 0
    /\ tz = "utc"
    /\ streak = NoResult
    /\ longest = NoResult
    /\ screen = "tabs"
    /\ onbSelectedDays = <<>>
    /\ asyncStorage = EmptyStorage
    /\ storageWritable = TRUE
    /\ ScheduleUnmounted
    /\ ServiceIdle
    /\ session \in {NoUser, UserId}
    /\ isWorkoutCompleted = FALSE
    /\ showCompletionModal = FALSE
    /\ completing = <<>>
    /\ NotifIdle
    /\ SubIdle
    /\ RestIdle

SpecLearn == LearnInit /\ [][LearnNext]_vars

(***************************************************************************)
(* Properties of the workout history                                       *)
(***************************************************************************)
\* C15: the workout_history table of the user and the local workoutHistory
\* item hold at most one record per calendar day.
C15_OneRecordPerDay ==
    /\ OnePerDay(workoutHistory)
    /\ asyncStorage.workoutHistory # <<>>
       => OnePerDay([rows |-> asyncStorage.workoutHistory[1]])

(***************************************************************************)
(* Workout reminders (notification service)                                *)
(***************************************************************************)
\* format(new Date(), 'EEEE').toLowerCase(); day 0 is a Monday
weekday(day) == days[(day % 7) + 1]

\* what supabase.auth.getSession() resolves to (as the auth context and the
\* subscription service read it): { data: { session }, error }
getSession(currentSession) ==
    [data |-> [session |-> currentSession], error |-> "null"]

\* const { session } = await supabase.auth.getSession(), followed by
\* session?.user?.id: the id, NoUser when session is undefined or null
destructuredSessionUser(result) ==
    IF "session" \in DOMAIN result THEN result.session ELSE NoUser

\* hasCompletedTodayWorkout(); .single() yields a row only when exactly one
\* row matches (PGRST116 otherwise)
hasCompletedTodayWorkout(currentSession, table, storage, day) ==
    IF destructuredSessionUser(getSession(currentSession)) # NoUser
       THEN Len(rowsOn(table, day)) = 1
    ELSE IF storage.workoutHistory = <<>> THEN FALSE
    ELSE rowsOn(storage.workoutHistory[1], day) # <<>>

\* isTodayWorkoutDay()
isTodayWorkoutDay(currentSession, daysTable, storage, day) ==
    IF destructuredSessionUser(getSession(currentSession)) # NoUser
       THEN includes(daysTable, weekday(day))
    ELSE IF storage.workoutDays = <<>> THEN FALSE
    ELSE includes(storage.workoutDays[1], weekday(day))

\* the settings loadReminderSettings returns when none are saved
defaultReminderSettings == [enabled |-> FALSE, time |-> "08:00"]

loadReminderSettings(storage) ==
    IF storage.reminderSettings # <<>> THEN storage.reminderSettings[1]
    ELSE defaultReminderSettings

\* the daily reminder and the test notification scheduleWorkoutNotification
\* schedules
workoutReminder(time) ==
    [type |-> "workout_reminder", time |-> time, repeats |-> TRUE]

testNotification ==
    [type |-> "test_notification", time |-> "5 seconds", repeats |-> FALSE]

HasReminder(list) == \E i \in DOMAIN list : list[i].type = "workout_reminder"

\* requestNotificationPermissions()
requestNotificationPermissions(os, granted) == os # "web" /\ granted

\* cancelTodayNotifications(): the scheduled notifications afterwards
cancelTodayNotifications(os, list) ==
    IF os = "web" THEN list
    ELSE SelectSeq(list, LAMBDA n : n.type # "workout_reminder")

\* cancelAllNotifications(): the scheduled notifications afterwards
cancelAllNotifications(os, list) == IF os = "web" THEN list ELSE <<>>

\* scheduleWorkoutNotification(time): the scheduled notifications afterwards
scheduleWorkoutNotification(os, list, time, granted) ==
    IF os = "web" THEN list
    ELSE <<workoutReminder(time)>>
         \o (IF requestNotificationPermissions(os, granted)
                THEN <<testNotification>> ELSE <<>>)

\* outcomes of the two edge functions check-workout-day and
\* check-workout-completed: a failed call, or their answers
EdgeOutcomes == {"fail", "rest", "completed", "due"}

\* checkAndUpdateNotificationStatus(): the scheduled notifications afterwards
checkAndUpdate_scheduled(os, storage, currentSession, table, daysTable, day, list, granted, edge) ==
    IF os = "web" THEN list
    ELSE LET settings == loadReminderSettings(storage)
             isWorkoutDay == isTodayWorkoutDay(currentSession, daysTable,
                                               storage, day)
             isCompleted == hasCompletedTodayWorkout(currentSession, table,
                                                     storage, day)
             localChecks ==
                 IF ~isWorkoutDay \/ isCompleted
                    THEN cancelTodayNotifications(os, list)
                    ELSE scheduleWorkoutNotification(os, list, settings.time,
                                                     granted)
         IN IF ~settings.enabled THEN list
            ELSE IF destructuredSessionUser(getSession(currentSession)) = NoUser
               THEN localChecks
            ELSE IF edge = "fail" THEN localChecks
            ELSE IF edge \in {"rest", "completed"}
               THEN cancelTodayNotifications(os, list)
            ELSE scheduleWorkoutNotification(os, list, settings.time, granted)

\* the app start effect of the root layout and the hourly background task
checkAndUpdateNotificationStatus(edge) ==
    /\ scheduled' = checkAndUpdate_scheduled(platform, asyncStorage, session,
                        workoutHistory.rows, workoutDaysTable, today,
                        scheduled, permissionGranted, edge)
    /\ UNCHANGED <<platform, permissionGranted, presented, workoutDaysTable,
                   statVars, appVars, exceptNotif>>

\* saveReminderSettings(settings), called by the reminders modal; a failing
\* setItem throws to the catch block, which logs
saveReminderSettings(settings) ==
    /\ IF storageWritable
          THEN /\ asyncStorage' =
                      setItem(asyncStorage, "reminderSettings", settings)
               /\ scheduled' =
                      IF settings.enabled
                         THEN IF requestNotificationPermissions(
                                     platform, permissionGranted)
                                 THEN scheduleWorkoutNotification(platform,
                                          scheduled, settings.time,
                                          permissionGranted)
                                 ELSE scheduled
                         ELSE cancelAllNotifications(platform, scheduled)
          ELSE UNCHANGED <<asyncStorage, scheduled>>
    /\ UNCHANGED <<platform, permissionGranted, presented, workoutDaysTable,
                   statVars, screen, onbSelectedDays, storageWritable,
                   scheduleVars, exceptNotif>>

\* the listener of setupNotificationReceivedHandler, for a notification of
\* the given type whose data asks for both checks: "dismissed" when it calls
\* dismissNotificationAsync, "shown" otherwise
receivedHandler_status(type, currentSession, table, daysTable, storage, day) ==
    IF type = "workout_reminder"
       THEN IF ~isTodayWorkoutDay(currentSession, daysTable, storage, day)
               THEN "dismissed"
            ELSE IF hasCompletedTodayWorkout(currentSession, table, storage, day)
               THEN "dismissed"
            ELSE "shown"
       ELSE "shown"

\* the trigger of the scheduled notification i fires while the app is in the
\* foreground, and the listener runs; a trigger that does not repeat is spent
notificationReceived(i) ==
    /\ platform # "web"
    /\ permissionGranted
    /\ presented = <<>>
    /\ i \in DOMAIN scheduled
    /\ presented' =
          <<[type |-> scheduled[i].type,
             status |-> receivedHandler_status(scheduled[i].type, session,
                            workoutHistory.rows, workoutDaysTable,
                            asyncStorage, today),
             day |-> today]>>
    /\ scheduled' = IF scheduled[i].repeats THEN scheduled
                    ELSE removeAt(scheduled, i)
    /\ UNCHANGED <<platform, permissionGranted, workoutDaysTable, statVars,
                   appVars, exceptNotif>>

\* the user clears the notification
clearPresented ==
    /\ presented # <<>>
    /\ presented' = <<>>
    /\ UNCHANGED <<platform, permissionGranted, scheduled, workoutDaysTable,
                   statVars, appVars, exceptNotif>>

\* the settings the reminders modal saves
ReminderSettings == [enabled : BOOLEAN, time : {"08:00"}]

RemindersNext ==
    \/ \E edge \in EdgeOutcomes : checkAndUpdateNotificationStatus(edge)
    \/ \E settings \in ReminderSettings : saveReminderSettings(settings)
    \/ \E i \in 1..2 : notificationReceived(i)
    \/ clearPresented
    \/ nextDay

\* the completions recorded before the behaviour starts: none, or the
\* workout of day 0 or of day 1
RecordedCompletions == {<<>>, <<completionData(0)>>, <<completionData(1)>>}

\* a user, signed in or not, with or without a saved schedule; a completion
\* is in the workout_history table for a signed-in user and in the
\* workoutHistory item otherwise
RemindersInit ==
    /\ today = 0
    /\ tz = "utc"
    /\ streak = NoResult
    /\ longest = NoResult
    /\ screen = "tabs"
    /\ onbSelectedDays = <<>>
    /\ storageWritable = TRUE
    /\ ScheduleUnmounted
    /\ ServiceIdle
    /\ session \in {NoUser, UserId}
    /\ isWorkoutCompleted = FALSE
    /\ showCompletionModal = FALSE
    /\ completing = <<>>
    /\ \E done \in RecordedCompletions,
          saved \in {<<>>, <<onboarding_initialDays>>} :
          /\ workoutHistory =
                [missing |-> FALSE,
                 rows |-> IF session # NoUser THEN done ELSE <<>>]
          /\ asyncStorage =
                [EmptyStorage EXCEPT
                    !.workoutDays = saved,
                    !.workoutHistory = IF session = NoUser /\ done # <<>>
                                          THEN <<done>> ELSE <<>>]
          /\ workoutDaysTable = IF session # NoUser /\ saved # <<>>
                                   THEN saved[1] ELSE <<>>
    /\ platform \in {"ios", "web"}
    /\ permissionGranted \in BOOLEAN
    /\ scheduled = <<>>
    /\ presented = <<>>
    /\ SubIdle
    /\ RestIdle

SpecReminders == RemindersInit /\ [][RemindersNext]_vars

(***************************************************************************)
(* Properties of the workout reminders                                     *)
(***************************************************************************)
\* the day is one of the workout days the schedule screen saved
IsWorkoutDay(day) ==
    /\ asyncStorage.workoutDays # <<>>
    /\ includes(asyncStorage.workoutDays[1], weekday(day))

\* the workout of the day is recorded where handleComplete records it: in the
\* workout_history table for a signed-in user, in AsyncStorage otherwise
CompletedOn(day) ==
    IF session # NoUser
       THEN rowsOn(workoutHistory.rows, day) # <<>>
    ELSE /\ asyncStorage.workoutHistory # <<>>
         /\ rowsOn(asyncStorage.workoutHistory[1], day) # <<>>

RemindersEnabled ==
    platform # "web" /\ loadReminderSettings(asyncStorage).enabled

\* C17: with reminders enabled on a non-web platform, once
\* checkAndUpdateNotificationStatus has completed by the local checks, a
\* workout_reminder is scheduled exactly when today is a workout day whose
\* workout is not completed.
C17_ReminderIffDue ==
    RemindersEnabled
    => LET after == checkAndUpdate_scheduled(platform, asyncStorage, session,
                        workoutHistory.rows, workoutDaysTable, today,
                        scheduled, permissionGranted, "fail")
       IN HasReminder(after) <=> (IsWorkoutDay(today) /\ ~CompletedOn(today))

\* C18: a checkAndUpdateNotificationStatus step on a rest day, or on a day
\* whose workout is completed, leaves a daily workout_reminder that was
\* scheduled before it scheduled for the following days.
C18_CancelKeepsDailyReminder ==
    [][(/\ \E edge \in EdgeOutcomes : checkAndUpdateNotificationStatus(edge)
        /\ RemindersEnabled
        /\ HasReminder(scheduled)
        /\ ~IsWorkoutDay(today) \/ CompletedOn(today))
       => HasReminder(scheduled')]_vars

\* C19: a workout_reminder received in the foreground is dismissed by the
\* handler exactly when the day is not a workout day or its workout is
\* completed; a notification of another type is never dismissed.
C19_ForegroundFiltering ==
    presented # <<>>
    => IF presented[1].type = "workout_reminder"
          THEN (presented[1].status = "dismissed")
                  <=> (~IsWorkoutDay(presented[1].day)
                       \/ CompletedOn(presented[1].day))
          ELSE presented[1].status = "shown"

(***************************************************************************)
(* Subscription service and subscription context                           *)
(***************************************************************************)
\* the clock runs from 0 to MaxClock; its unit is one month
MaxClock == 3
\* setFullYear(getFullYear() + 1), in months
MonthsPerYear == 12
\* the free tier's limits
FreeMaxCustomExercises == 5
FreeMaxWorkoutHistory == 30
FreeMaxWorkoutPlans == 3

\* a limit is <<n>> for the number n and <<>> for Infinity
Infinity == <<>>

UnlimitedLimits ==
    [max_custom_exercises |-> Infinity, max_workout_history |-> Infinity,
     max_workout_plans |-> Infinity]

FreeLimits ==
    [max_custom_exercises |-> <<FreeMaxCustomExercises>>,
     max_workout_history |-> <<FreeMaxWorkoutHistory>>,
     max_workout_plans |-> <<FreeMaxWorkoutPlans>>]

\* subscriptionPlans: the fields purchaseSubscription reads
subscriptionPlans ==
    {[id |-> "premium-monthly", period |-> "monthly", tier |-> "premium"],
     [id |-> "premium-annual", period |-> "annual", tier |-> "premium"]}

\* variant: a subscription is still valid at the instant validUntil
isSubscriptionValid_inclusive(sub, at) ==
    IF sub.tier = "free" THEN FALSE
    ELSE IF sub.validUntil = <<>> THEN FALSE
    ELSE sub.validUntil[1] >= at

\* isSubscriptionValid(subscription) at the time new Date() = at
isSubscriptionValid(sub, at) ==
    IF sub.tier = "free" THEN FALSE
    ELSE IF sub.validUntil = <<>> THEN FALSE
    ELSE sub.validUntil[1] > at

\* getFeatureLimits(subscription) at the time at
getFeatureLimits(sub, at) ==
    IF sub.tier = "premium" /\ isSubscriptionValid(sub, at)
       THEN UnlimitedLimits
       ELSE FreeLimits

\* const { data: session } = await supabase.auth.getSession(), followed by
\* session?.session?.user
dataSessionUser(result) == result.data.session

\* the SubscriptionInfo built from a user_subscriptions row
rowToSubscription(row) ==
    [tier |-> row.tier, validUntil |-> row.valid_until,
     purchaseDate |-> row.purchase_date, subscriptionId |-> row.subscription_id,
     plan |-> row.plan, autoRenew |-> row.auto_renew]

\* the columns purchaseSubscription upserts
subscriptionToRow(info) ==
    [tier |-> info.tier, valid_until |-> info.validUntil,
     purchase_date |-> info.purchaseDate,
     subscription_id |-> info.subscriptionId, plan |-> info.plan,
     auto_renew |-> info.autoRenew]

\* initializeSubscription(): the SubscriptionInfo returned and the
\* AsyncStorage items afterwards
initializeSubscription(storage, writable, currentSession, row) ==
    IF storage.subscription # <<>>
       THEN [value |-> storage.subscription[1], storage |-> storage]
    ELSE IF dataSessionUser(getSession(currentSession)) # NoUser /\ row # <<>>
       THEN IF writable
               THEN [value |-> rowToSubscription(row[1]),
                     storage |-> setItem(storage, "subscription",
                                         rowToSubscription(row[1]))]
               ELSE [value |-> defaultSubscription, storage |-> storage]
    ELSE [value |-> defaultSubscription, storage |-> storage]

\* loadSubscription of the provider (mount effect and refreshSubscription)
loadSubscription ==
    /\ LET r == initializeSubscription(asyncStorage, storageWritable, session,
                                       subscriptionRow)
       IN /\ subscription' = r.value
          /\ asyncStorage' = r.storage
    /\ UNCHANGED <<clock, limits, subscriptionRow, purchaseError, statVars,
                   screen, onbSelectedDays, storageWritable, scheduleVars,
                   exceptSub>>

\* subscriptionInfo of purchaseSubscription(plan) at the time at
purchasedSubscription(plan, at) ==
    [tier |-> plan.tier,
     validUntil |-> <<at + (IF plan.period = "monthly" THEN 1
                            ELSE MonthsPerYear)>>,
     purchaseDate |-> <<at>>,
     subscriptionId |-> <<at>>,
     plan |-> <<plan.period>>,
     autoRenew |-> TRUE]

\* the upsert of purchaseSubscription gives no id and no onConflict, so it
\* inserts: the row is written when the user has none, and the statement
\* fails on UNIQUE(user_id), which is only logged, when the user has one
upsertSubscription(currentSession, row, info) ==
    IF dataSessionUser(getSession(currentSession)) # NoUser /\ row = <<>>
       THEN <<subscriptionToRow(info)>>
       ELSE row

\* .update({ auto_renew: false }).eq('user_id', ...) of cancelSubscription
updateAutoRenew(currentSession, row) ==
    IF dataSessionUser(getSession(currentSession)) # NoUser /\ row # <<>>
       THEN <<[row[1] EXCEPT !.auto_renew = FALSE]>>
       ELSE row

\* purchase(plan) of the provider: purchaseSubscription and its callbacks
purchase(plan) ==
    /\ IF storageWritable
          THEN /\ asyncStorage' =
                     setItem(asyncStorage, "subscription",
                             purchasedSubscription(plan, clock))
               /\ subscriptionRow' =
                     upsertSubscription(session, subscriptionRow,
                                        purchasedSubscription(plan, clock))
               /\ subscription' =
                     initializeSubscription(asyncStorage', storageWritable,
                                            session, subscriptionRow').value
               /\ purchaseError' = "null"
          ELSE /\ purchaseError' = "setItem failed"
               /\ UNCHANGED <<asyncStorage, subscriptionRow, subscription>>
    /\ UNCHANGED <<clock, limits, statVars, screen, onbSelectedDays,
                   storageWritable, scheduleVars, exceptSub>>

\* variant: cancelling also ends the paid period
cancelSubscription_expire(item) ==
    [item EXCEPT !.autoRenew = FALSE, !.validUntil = <<>>]

\* the item cancelSubscription stores: JSON.parse of the stored item with
\* autoRenew = false, stringified again
cancelSubscription_item(item) == [item EXCEPT !.autoRenew = FALSE]

\* cancel() of the provider: cancelSubscription and its callbacks
cancel ==
    /\ IF asyncStorage.subscription # <<>> /\ storageWritable
          THEN /\ asyncStorage' =
                     setItem(asyncStorage, "subscription",
                             cancelSubscription_item(
                                 asyncStorage.subscription[1]))
               /\ subscriptionRow' = updateAutoRenew(session, subscriptionRow)
               /\ subscription' =
                     initializeSubscription(asyncStorage', storageWritable,
                                            session, subscriptionRow').value
          ELSE UNCHANGED <<asyncStorage, subscriptionRow, subscription>>
    /\ UNCHANGED <<clock, limits, purchaseError, statVars, screen,
                   onbSelectedDays, storageWritable, scheduleVars, exceptSub>>

\* getSubscriptionLimits() of the provider, called at the time clock
getSubscriptionLimits ==
    /\ limits' = <<[subscription |-> subscription, at |-> clock,
                    value |-> getFeatureLimits(subscription, clock)]>>
    /\ UNCHANGED <<clock, subscription, subscriptionRow, purchaseError,
                   statVars, appVars, exceptSub>>

\* time passes
tick ==
    /\ clock < MaxClock
    /\ clock' = clock + 1
    /\ UNCHANGED <<subscription, limits, subscriptionRow, purchaseError,
                   statVars, appVars, exceptSub>>

SubscriptionNext ==
    \/ loadSubscription
    \/ \E plan \in subscriptionPlans : purchase(plan)
    \/ cancel
    \/ getSubscriptionLimits
    \/ tick

\* rows user_subscriptions can hold for the user before the app starts
SubscriptionRows ==
    {[tier |-> "free", valid_until |-> <<>>, purchase_date |-> <<>>,
      subscription_id |-> <<>>, plan |-> <<>>, auto_renew |-> FALSE],
     [tier |-> "premium", valid_until |-> <<>>, purchase_date |-> <<>>,
      subscription_id |-> <<>>, plan |-> <<>>, auto_renew |-> FALSE],
     [tier |-> "premium", valid_until |-> <<1>>, purchase_date |-> <<0>>,
      subscription_id |-> <<0>>, plan |-> <<"monthly">>, auto_renew |-> TRUE]}

SubscriptionInit ==
    /\ workoutHistory = [missing |-> FALSE, rows |-> <<>>]
    /\ today = 0
    /\ tz = "utc"
    /\ streak = NoResult
    /\ longest = NoResult
    /\ screen = "tabs"
    /\ onbSelectedDays = <<>>
    /\ storageWritable \in BOOLEAN
    /\ ScheduleUnmounted
    /\ ServiceIdle
    /\ session \in {NoUser, UserId}
    /\ isWorkoutCompleted = FALSE
    /\ showCompletionModal = FALSE
    /\ completing = <<>>
    /\ NotifIdle
    /\ clock = 0
    /\ subscription = defaultSubscription
    /\ limits = NoResult
    /\ purchaseError = "null"
    /\ RestIdle
    /\ \E row \in {<<>>} \cup {<<r>> : r \in SubscriptionRows},
          kept \in BOOLEAN :
          /\ subscriptionRow = IF session # NoUser THEN row ELSE <<>>
          /\ asyncStorage =
                [EmptyStorage EXCEPT
                    !.subscription = IF kept /\ row # <<>>
                                        THEN <<rowToSubscription(row[1])>>
                                        ELSE <<>>]

SpecSubscription == SubscriptionInit /\ [][SubscriptionNext]_vars

\* C20: every result of getFeatureLimits is the unlimited limits when the
\* subscription's tier is premium and its validUntil is strictly later than
\* the time of the call, and the free limits (5 custom exercises, 30 days of
\* history, 3 workout plans) otherwise: free tier, no validUntil, or a
\* validUntil at or before the time of the call
C20_LimitsByValidity ==
    limits # NoResult =>
        LET sub == limits[1].subscription
            at == limits[1].at
        IN IF /\ sub.tier = "premium"
              /\ sub.validUntil # <<>>
              /\ sub.validUntil[1] > at
              THEN limits[1].value =
                      [max_custom_exercises |-> <<>>,
                       max_workout_history |-> <<>>,
                       max_workout_plans |-> <<>>]
              ELSE limits[1].value =
                      [max_custom_exercises |-> <<5>>,
                       max_workout_history |-> <<30>>,
                       max_workout_plans |-> <<3>>]

\* a premium subscription asked for its limits at the very instant it expires
C20_Witness ==
    /\ limits # NoResult
    /\ limits[1].subscription.tier = "premium"
    /\ limits[1].subscription.validUntil = <<limits[1].at>>
    /\ limits[1].value.max_custom_exercises = <<FreeMaxCustomExercises>>

\* the fields of a SubscriptionInfo other than autoRenew
subscriptionTerms(info) ==
    <<info.tier, info.validUntil, info.purchaseDate, info.subscriptionId,
      info.plan>>

\* C21: a cancel step on a stored subscription stores autoRenew = false and
\* leaves tier, validUntil, purchaseDate, subscriptionId and plan of the
\* stored subscription (and of the user's user_subscriptions row) as they
\* were, so isSubscriptionValid answers the same before and after it
C21_CancelOnlyStopsRenewal ==
    [][(cancel /\ asyncStorage.subscription # <<>>)
       => /\ asyncStorage'.subscription # <<>>
          /\ subscriptionTerms(asyncStorage'.subscription[1]) =
                subscriptionTerms(asyncStorage.subscription[1])
          /\ storageWritable => ~asyncStorage'.subscription[1].autoRenew
          /\ isSubscriptionValid(asyncStorage'.subscription[1], clock') =
                isSubscriptionValid(asyncStorage.subscription[1], clock)
          /\ (subscriptionRow = <<>>) = (subscriptionRow' = <<>>)
          /\ subscriptionRow # <<>> =>
                subscriptionTerms(rowToSubscription(subscriptionRow'[1])) =
                   subscriptionTerms(rowToSubscription(subscriptionRow[1]))]_vars

\* an annual subscription, which only purchase creates, cancelled while it
\* is still valid
C21_Witness ==
    /\ asyncStorage.subscription # <<>>
    /\ asyncStorage.subscription[1].plan = <<"annual">>
    /\ ~asyncStorage.subscription[1].autoRenew
    /\ isSubscriptionValid(asyncStorage.subscription[1], clock)
    /\ subscription = asyncStorage.subscription[1]

(***************************************************************************)
(* Custom exercises: profile screen, schedule screen and exercise picker   *)
(***************************************************************************)
\* no list of custom exercises grows beyond MaxCustomExercises names
MaxCustomExercises == 6

\* exercise names are numbers, ordered as the names are by sort()
\* a name the picker accepts: one that is not in the list of the screen
\* that opened it (the first such name)
newExerciseName(list) ==
    CHOOSE n \in 1..(Len(list) + 1) :
        /\ n \notin Range(list)
        /\ \A m \in 1..(n - 1) : m \in Range(list)

\* customExercises.length >= limits.max_custom_exercises
reachesLimit(length, limit) == limit # Infinity /\ length >= limit[1]

\* the showUpgradePrompt prop the profile screen passes to the picker
showUpgradePrompt(sub, at, list) ==
    /\ ~isSubscriptionValid(sub, at)
    /\ reachesLimit(Len(list), getFeatureLimits(sub, at).max_custom_exercises)

\* loadCustomExercises of the profile screen
profile_customExercises(currentSession, table, storage, current) ==
    IF currentSession # NoUser THEN sortNumbers(table)
    ELSE IF storage.customExercises # <<>>
       THEN sortNumbers(storage.customExercises[1])
       ELSE current

\* the profile screen's initializeData effect, custom exercises only
profile_loadCustomExercises ==
    /\ profileExercises' =
          profile_customExercises(session, customExercisesTable, asyncStorage,
                                  profileExercises)
    /\ UNCHANGED <<scheduleExercises, customExercisesTable, statVars, appVars,
                   serviceVars, learnVars, notifVars, subVars, tailVars>>

\* "Add Custom Exercise" of the picker opened from the profile screen, and
\* handleAddCustomExercise of the profile screen
profile_handleAddCustomExercise ==
    /\ ~showUpgradePrompt(subscription, clock, profileExercises)
    /\ Len(profileExercises) < MaxCustomExercises
    /\ IF session # NoUser
          THEN /\ customExercisesTable' =
                     Append(customExercisesTable,
                            newExerciseName(profileExercises))
               /\ profileExercises' =
                     profile_customExercises(session, customExercisesTable',
                                             asyncStorage, profileExercises)
               /\ UNCHANGED asyncStorage
          ELSE /\ IF storageWritable
                     THEN /\ profileExercises' =
                                sortNumbers(Append(profileExercises,
                                    newExerciseName(profileExercises)))
                          /\ asyncStorage' =
                                setItem(asyncStorage, "customExercises",
                                        profileExercises')
                     ELSE UNCHANGED <<profileExercises, asyncStorage>>
               /\ UNCHANGED customExercisesTable
    /\ UNCHANGED <<scheduleExercises, statVars, screen, onbSelectedDays,
                   storageWritable, scheduleVars, serviceVars, learnVars,
                   notifVars, subVars, tailVars>>

\* "Add Custom Exercise" of the picker opened from a workout day of the
\* schedule screen, which passes no showUpgradePrompt (its default is
\* false), and handleAddCustomExercise of the schedule screen
schedule_handleAddCustomExercise ==
    /\ isMounted
    /\ ~isLoading
    /\ selectedDays # <<>>
    /\ Len(scheduleExercises) < MaxCustomExercises
    /\ scheduleExercises' = Append(scheduleExercises,
                                newExerciseName(scheduleExercises))
    /\ asyncStorage' = IF storageWritable
                          THEN setItem(asyncStorage, "customExercises",
                                       scheduleExercises')
                          ELSE asyncStorage
    /\ UNCHANGED <<profileExercises, customExercisesTable, statVars, screen,
                   onbSelectedDays, storageWritable, scheduleVars, serviceVars,
                   learnVars, notifVars, subVars, tailVars>>

ExercisesNext ==
    \/ profile_loadCustomExercises
    \/ profile_handleAddCustomExercise
    \/ MountSchedule
    \/ UnmountSchedule
    \/ loadData
    \/ schedule_handleAddCustomExercise

\* the subscriptions of the users of the exercise model: never purchased,
\* premium until after the model's last instant, premium and expired
ExerciseSubscriptions ==
    {defaultSubscription,
     [tier |-> "premium", validUntil |-> <<MaxClock + 1>>,
      purchaseDate |-> <<0>>, subscriptionId |-> <<0>>,
      plan |-> <<"annual">>, autoRenew |-> TRUE],
     [tier |-> "premium", validUntil |-> <<0>>, purchaseDate |-> <<0>>,
      subscriptionId |-> <<0>>, plan |-> <<"monthly">>, autoRenew |-> FALSE]}

ExercisesInit ==
    /\ StatsIdle
    /\ screen = "tabs"
    /\ onbSelectedDays = <<>>
    /\ asyncStorage = [EmptyStorage EXCEPT
                          !.workoutDays = <<onboarding_initialDays>>]
    /\ storageWritable \in BOOLEAN
    /\ ScheduleUnmounted
    /\ ServiceIdle
    /\ session \in {NoUser, UserId}
    /\ isWorkoutCompleted = FALSE
    /\ showCompletionModal = FALSE
    /\ completing = <<>>
    /\ NotifIdle
    /\ clock = 0
    /\ subscription \in ExerciseSubscriptions
    /\ limits = NoResult
    /\ subscriptionRow = <<>>
    /\ purchaseError = "null"
    /\ ExerciseIdle
    /\ TailIdle

SpecExercises == ExercisesInit /\ [][ExercisesNext]_vars

\* the custom exercises stored for the user: the AsyncStorage item and the
\* custom_exercises rows
storedCustomExercises ==
    IF asyncStorage.customExercises # <<>>
       THEN asyncStorage.customExercises[1] ELSE <<>>

\* C22: while the subscription is not a valid premium subscription, neither
\* the stored custom exercise list nor the user's custom_exercises rows hold
\* more than 5 names.
C22_FreeTierAtMostFiveStored ==
    ~isSubscriptionValid(subscription, clock)
    => /\ Len(storedCustomExercises) <= 5
       /\ Len(customExercisesTable) <= 5

(***************************************************************************)
(* sync-goals edge function                                                *)
(***************************************************************************)
\* sync requests handled at the same time
MaxSyncInFlight == 2
\* goals of one request, and rows user_goals grows to
MaxGoals == 1
MaxGoalRows == 2

OtherUserId == "u2"
GoalUsers == {UserId, OtherUserId}
Goals == {"strength", "cardio"}

\* the goals field of a request body: <<>> when it is missing or not an
\* array, <<list>> for an array
GoalLists == {<<>>} \cup {<<list>> : list \in BoundedSeq(Goals, MaxGoals)}

SyncBodies ==
    [user_id : {NoUser} \cup GoalUsers,
     goals : GoalLists,
     operation : {"get", "sync", "add", "remove", "merge"}]

\* the goal column of the rows of a user, in table order
goalsOf(table, user) ==
    LET rows == SelectSeq(table, LAMBDA row : row.user_id = user)
    IN [i \in DOMAIN rows |-> rows[i].goal]

\* .delete().eq("user_id", user_id)
deleteGoals(table, user) ==
    SelectSeq(table, LAMBDA row : row.user_id # user)

\* .delete().eq("user_id", user_id).eq("goal", goal)
deleteGoal(table, user, goal) ==
    SelectSeq(table, LAMBDA row : ~(row.user_id = user /\ row.goal = goal))

\* goals.map(goal => ({ user_id, goal }))
goalsToInsert(user, list) ==
    [i \in DOMAIN list |-> [user_id |-> user, goal |-> list[i]]]

\* a Response of the handler: its status and the goals field of its body
syncGoals_response(body, status, goals) ==
    <<[operation |-> body.operation, status |-> status, goals |-> goals]>>

\* the handler from the request to its response, or for a valid sync
\* request to its first query; ok tells whether the query of a get, add or
\* remove request succeeds
syncGoals_request(body, ok) ==
    /\ IF body.user_id = NoUser
          THEN /\ syncResponse' = syncGoals_response(body, 400, <<>>)
               /\ UNCHANGED <<goalsTable, syncRequests>>
       ELSE IF body.operation = "get"
          THEN /\ syncResponse' =
                     IF ok
                        THEN syncGoals_response(body, 200,
                                <<goalsOf(goalsTable, body.user_id)>>)
                        ELSE syncGoals_response(body, 500, <<>>)
               /\ UNCHANGED <<goalsTable, syncRequests>>
       ELSE IF body.operation = "sync"
          THEN IF body.goals = <<>>
                  THEN /\ syncResponse' = syncGoals_response(body, 400, <<>>)
                       /\ UNCHANGED <<goalsTable, syncRequests>>
                  ELSE /\ Len(syncRequests) < MaxSyncInFlight
                       /\ syncRequests' =
                             Append(syncRequests,
                                    [body |-> body, pc |-> "delete"])
                       /\ UNCHANGED <<goalsTable, syncResponse>>
       ELSE IF /\ body.operation = "add"
               /\ body.goals # <<>>
               /\ Len(body.goals[1]) = 1
          THEN /\ Len(goalsTable) < MaxGoalRows
               /\ goalsTable' =
                     IF ok
                        THEN Append(goalsTable,
                                    [user_id |-> body.user_id,
                                     goal |-> body.goals[1][1]])
                        ELSE goalsTable
               /\ syncResponse' =
                     syncGoals_response(body, IF ok THEN 200 ELSE 500, <<>>)
               /\ UNCHANGED syncRequests
       ELSE IF /\ body.operation = "remove"
               /\ body.goals # <<>>
               /\ Len(body.goals[1]) = 1
          THEN /\ goalsTable' =
                     IF ok
                        THEN deleteGoal(goalsTable, body.user_id,
                                        body.goals[1][1])
                        ELSE goalsTable
               /\ syncResponse' =
                     syncGoals_response(body, IF ok THEN 200 ELSE 500, <<>>)
               /\ UNCHANGED syncRequests
       ELSE /\ syncResponse' = syncGoals_response(body, 400, <<>>)
            /\ UNCHANGED <<goalsTable, syncRequests>>
    /\ UNCHANGED <<statVars, appVars, serviceVars, learnVars, notifVars,
                   subVars, exerciseVars, opVars>>

\* a sync request: the delete of the user's rows returns, and with an empty
\* goals list the response is sent
syncGoals_delete(i, ok) ==
    /\ i \in DOMAIN syncRequests
    /\ syncRequests[i].pc = "delete"
    /\ LET body == syncRequests[i].body IN
       IF ~ok
          THEN /\ syncResponse' = syncGoals_response(body, 500, <<>>)
               /\ syncRequests' = removeAt(syncRequests, i)
               /\ UNCHANGED goalsTable
       ELSE /\ goalsTable' = deleteGoals(goalsTable, body.user_id)
            /\ IF Len(body.goals[1]) > 0
                  THEN /\ syncRequests' =
                             [syncRequests EXCEPT ![i].pc = "insert"]
                       /\ UNCHANGED syncResponse
                  ELSE /\ syncRequests' = removeAt(syncRequests, i)
                       /\ syncResponse' = syncGoals_response(body, 200, <<>>)
    /\ UNCHANGED <<statVars, appVars, serviceVars, learnVars, notifVars,
                   subVars, exerciseVars, opVars>>

\* a sync request: the insert of the new rows returns and the response is
\* sent
syncGoals_insert(i, ok) ==
    /\ i \in DOMAIN syncRequests
    /\ syncRequests[i].pc = "insert"
    /\ LET body == syncRequests[i].body IN
       /\ Len(goalsTable) + Len(body.goals[1]) <= MaxGoalRows
       /\ goalsTable' =
             IF ok
                THEN goalsTable \o goalsToInsert(body.user_id, body.goals[1])
                ELSE goalsTable
       /\ syncResponse' =
             syncGoals_response(body, IF ok THEN 200 ELSE 500, <<>>)
    /\ syncRequests' = removeAt(syncRequests, i)
    /\ UNCHANGED <<statVars, appVars, serviceVars, learnVars, notifVars,
                   subVars, exerciseVars, opVars>>

GoalsNext ==
    \/ \E body \in SyncBodies, ok \in BOOLEAN : syncGoals_request(body, ok)
    \/ \E i \in 1..MaxSyncInFlight, ok \in BOOLEAN : syncGoals_delete(i, ok)
    \/ \E i \in 1..MaxSyncInFlight, ok \in BOOLEAN : syncGoals_insert(i, ok)

GoalsInit ==
    /\ StatsIdle
    /\ AppIdle
    /\ ServiceIdle
    /\ LearnIdle
    /\ NotifIdle
    /\ SubIdle
    /\ ExerciseIdle
    /\ OpIdle
    /\ goalsTable \in {<<>>,
                       <<[user_id |-> UserId, goal |-> "strength"],
                         [user_id |-> OtherUserId, goal |-> "cardio"]>>}
    /\ syncRequests = <<>>
    /\ syncResponse = NoResult

SpecGoals == GoalsInit /\ [][GoalsNext]_vars

\* the number of times goal g occurs in a list
occurrences(list, g) == Cardinality({i \in DOMAIN list : list[i] = g})

\* two lists hold the same goals, each as many times
sameGoals(a, b) == \A g \in Goals : occurrences(a, g) = occurrences(b, g)

\* the step sends the 200 response of the sync request at position i
syncRespondsOk(i) ==
    /\ i \in DOMAIN syncRequests
    /\ \E ok \in BOOLEAN : syncGoals_delete(i, ok) \/ syncGoals_insert(i, ok)
    /\ Len(syncRequests') < Len(syncRequests)
    /\ syncResponse' # NoResult
    /\ syncResponse'[1].status = 200

\* C23: when the handler sends 200 for { user_id, goals, operation: 'sync' },
\* the rows of user_id hold exactly the goals of the request (none when the
\* list is empty), and the step leaves the rows of every other user as they
\* were.
C23_SyncReplacesGoals ==
    [][\A i \in 1..MaxSyncInFlight :
          syncRespondsOk(i)
          => /\ sameGoals(goalsOf(goalsTable', syncRequests[i].body.user_id),
                          syncRequests[i].body.goals[1])
             /\ \A other \in GoalUsers \ {syncRequests[i].body.user_id} :
                   goalsOf(goalsTable', other) = goalsOf(goalsTable, other)
      ]_vars

(***************************************************************************)
(* Reminder operations in progress: one step per awaited notification call *)
(***************************************************************************)
\* calls of saveReminderSettings in progress at the same time, and calls of
\* checkAndUpdateNotificationStatus in progress at the same time
MaxOpsPerKind == 1
\* the calls in progress are of two kinds
MaxNotifOps == 2 * MaxOpsPerKind

\* the calls of a kind in progress
opsOfKind(ops, kind) == SelectSeq(ops, LAMBDA op : op.kind = kind)

\* what checkAndUpdateNotificationStatus does after its reads: "return",
\* "cancelToday" or "schedule"
checkAndUpdate_decision(os, storage, currentSession, table, daysTable, day, edge) ==
    IF os = "web" THEN "return"
    ELSE LET settings == loadReminderSettings(storage)
             isWorkoutDay == isTodayWorkoutDay(currentSession, daysTable,
                                               storage, day)
             isCompleted == hasCompletedTodayWorkout(currentSession, table,
                                                     storage, day)
             localChecks == IF ~isWorkoutDay \/ isCompleted
                               THEN "cancelToday" ELSE "schedule"
         IN IF ~settings.enabled THEN "return"
            ELSE IF destructuredSessionUser(getSession(currentSession)) = NoUser
               THEN localChecks
            ELSE IF edge = "fail" THEN localChecks
            ELSE IF edge \in {"rest", "completed"} THEN "cancelToday"
            ELSE "schedule"

\* what saveReminderSettings does after setItem: "return", "cancelAll" or
\* "schedule"
saveReminderSettings_decision(os, granted, settings) ==
    IF settings.enabled
       THEN IF requestNotificationPermissions(os, granted)
               THEN "schedule" ELSE "return"
       ELSE "cancelAll"

\* a call in progress at the first notification call of what it decided;
\* scheduleWorkoutNotification and cancelAllNotifications return at once on
\* the web
startOp(ops, os, kind, decision, time) ==
    IF decision = "return" \/ os = "web" THEN ops
    ELSE Append(ops, [kind |-> kind,
                      pc |-> IF decision = "schedule"
                                THEN "schedule_cancelAll" ELSE decision,
                      time |-> time])

\* checkAndUpdateNotificationStatus() up to its first notification call:
\* the settings, the session and the day's status are read
checkAndUpdate_begin(edge) ==
    /\ Len(opsOfKind(notifOps, "check")) < MaxOpsPerKind
    /\ notifOps' =
          startOp(notifOps, platform, "check",
                  checkAndUpdate_decision(platform, asyncStorage, session,
                      workoutHistory.rows, workoutDaysTable, today, edge),
                  loadReminderSettings(asyncStorage).time)
    /\ UNCHANGED <<statVars, appVars, serviceVars, learnVars, notifVars,
                   subVars, exerciseVars, goalVars>>

\* saveReminderSettings(settings) up to its first notification call: the
\* settings are stored and the permission is asked for
saveReminderSettings_begin(settings) ==
    /\ Len(opsOfKind(notifOps, "save")) < MaxOpsPerKind
    /\ IF storageWritable
          THEN /\ asyncStorage' =
                     setItem(asyncStorage, "reminderSettings", settings)
               /\ notifOps' =
                     startOp(notifOps, platform, "save",
                             saveReminderSettings_decision(platform,
                                 permissionGranted, settings),
                             settings.time)
          ELSE UNCHANGED <<asyncStorage, notifOps>>
    /\ UNCHANGED <<statVars, screen, onbSelectedDays, storageWritable,
                   scheduleVars, serviceVars, learnVars, notifVars, subVars,
                   exerciseVars, goalVars>>

\* the call at position i is at pc
AtPc(i, pc) == i \in DOMAIN notifOps /\ notifOps[i].pc = pc

\* cancelTodayNotifications() of a check
cancelTodayNotifications_step(i) ==
    /\ AtPc(i, "cancelToday")
    /\ scheduled' = cancelTodayNotifications(platform, scheduled)
    /\ notifOps' = removeAt(notifOps, i)
    /\ UNCHANGED <<platform, permissionGranted, presented, workoutDaysTable,
                   statVars, appVars, serviceVars, learnVars, subVars,
                   exerciseVars, goalVars>>

\* cancelAllNotifications() of a save with enabled = false
cancelAllNotifications_step(i) ==
    /\ AtPc(i, "cancelAll")
    /\ scheduled' = cancelAllNotifications(platform, scheduled)
    /\ notifOps' = removeAt(notifOps, i)
    /\ UNCHANGED <<platform, permissionGranted, presented, workoutDaysTable,
                   statVars, appVars, serviceVars, learnVars, subVars,
                   exerciseVars, goalVars>>

\* scheduleWorkoutNotification: cancelAllScheduledNotificationsAsync()
scheduleWorkoutNotification_cancelAll(i) ==
    /\ AtPc(i, "schedule_cancelAll")
    /\ scheduled' = <<>>
    /\ notifOps' = [notifOps EXCEPT ![i].pc = "schedule_reminder"]
    /\ UNCHANGED <<platform, permissionGranted, presented, workoutDaysTable,
                   statVars, appVars, serviceVars, learnVars, subVars,
                   exerciseVars, goalVars>>

\* scheduleWorkoutNotification: scheduleNotificationAsync of the daily
\* reminder
scheduleWorkoutNotification_reminder(i) ==
    /\ AtPc(i, "schedule_reminder")
    /\ scheduled' = Append(scheduled, workoutReminder(notifOps[i].time))
    /\ notifOps' = [notifOps EXCEPT ![i].pc = "schedule_test"]
    /\ UNCHANGED <<platform, permissionGranted, presented, workoutDaysTable,
                   statVars, appVars, serviceVars, learnVars, subVars,
                   exerciseVars, goalVars>>

\* scheduleWorkoutNotification: the permission is asked for and the test
\* notification is scheduled
scheduleWorkoutNotification_test(i) ==
    /\ AtPc(i, "schedule_test")
    /\ scheduled' = IF requestNotificationPermissions(platform,
                                                      permissionGranted)
                       THEN Append(scheduled, testNotification)
                       ELSE scheduled
    /\ notifOps' = removeAt(notifOps, i)
    /\ UNCHANGED <<platform, permissionGranted, presented, workoutDaysTable,
                   statVars, appVars, serviceVars, learnVars, subVars,
                   exerciseVars, goalVars>>

\* the trigger of a test notification fires: it is scheduled no longer
testNotificationFired(i) ==
    /\ i \in DOMAIN scheduled
    /\ ~scheduled[i].repeats
    /\ scheduled' = removeAt(scheduled, i)
    /\ UNCHANGED <<platform, permissionGranted, presented, workoutDaysTable,
                   notifOps, statVars, appVars, serviceVars, learnVars,
                   subVars, exerciseVars, goalVars>>

ReminderOpsNext ==
    \/ \E edge \in EdgeOutcomes : checkAndUpdate_begin(edge)
    \/ \E settings \in ReminderSettings : saveReminderSettings_begin(settings)
    \/ \E i \in 1..MaxNotifOps :
          \/ cancelTodayNotifications_step(i)
          \/ cancelAllNotifications_step(i)
          \/ scheduleWorkoutNotification_cancelAll(i)
          \/ scheduleWorkoutNotification_reminder(i)
          \/ scheduleWorkoutNotification_test(i)
    \/ \E i \in 1..(2 * MaxNotifOps) : testNotificationFired(i)

ReminderOpsInit ==
    /\ RemindersInit
    /\ storageWritable = TRUE

SpecReminderOps == ReminderOpsInit /\ [][ReminderOpsNext]_vars

\* the workout_reminder notifications that are scheduled
reminders(list) == SelectSeq(list, LAMBDA n : n.type = "workout_reminder")

\* C24: while the stored reminder settings have enabled = false and neither
\* saveReminderSettings nor checkAndUpdateNotificationStatus is in progress,
\* no workout_reminder notification is scheduled.
C24_DisabledMeansNoReminder ==
    (~loadReminderSettings(asyncStorage).enabled /\ notifOps = <<>>)
    => reminders(scheduled) = <<>>

\* C25: at most one workout_reminder notification is scheduled.
C25_AtMostOneReminder == Len(reminders(scheduled)) <= 1

====
